---- MODULE Spec2Model ----
(***************************************************************************)
(* A model of the AST elaboration core of frontends/ast/simplify.cc:       *)
(* AstNode::simplify (the stage-0 driver and the stage-1 / stage-2 rewrite *)
(* passes), mem2reg_as_needed_pass1 / pass2 and eval_const_function.       *)
(*                                                                         *)
(* An AstNode is a record; `children` is the ordered child list.  The C++  *)
(* object identity of a node (what an AstNode* compares equal to) is the   *)
(* field `uid`; id2ast, current_scope and mem2reg_set hold uids, 0 is the  *)
(* NULL pointer.  A name (AstNode::str) is the sequence of its             *)
(* dot-separated components, so "a.b" is <<"a","b">> and "" is <<>>.       *)
(***************************************************************************)
EXTENDS Integers, Sequences, FiniteSets, TLC

VARIABLES
    children,       \* current_ast_mod->children, the module root's child list
    mod_attributes, \* the module root's attributes
    flag_nomem2reg, \* AST_INTERNAL::flag_nomem2reg
    flag_mem2reg,   \* AST_INTERNAL::flag_mem2reg
    pc,             \* position inside simplify(stage = 0), lines 58-143
    autoidx,        \* RTLIL::autoidx
    nextuid,        \* the next fresh object identity (operator new)
    mem2reg_candidates, \* pass 1 result: uid of a memory -> set of flags
    mem2reg_set,    \* uids of the memories chosen for demotion
    const_fold,     \* the const_fold argument of the stage-0 call
    retval,         \* what simplify(stage = 0) returned: "none", "false"
    error,          \* the log_error message that aborted the run, or ""
    trace,          \* the passes run so far, in order: [op, ret] with ret the value
                    \* a pass over the module root returned
    init_children,  \* the module as the parser handed it over
    \* the state of the constant-function interpreter, eval_const_function
    current_scope,  \* AST_INTERNAL::current_scope at the call site: name -> object
    func_decl,      \* the AST_FUNCTION node the name of the function is bound to
    fcall,          \* the call: an AST_FCALL whose children are the folded arguments
    func_workspace, \* the clone under evaluation, or NoWorkspace
    block_children, \* block->children, the statements still to be executed
    variables,      \* name -> varinfo_t [val, offset, is_signed]
    backup_scope,   \* eval_const_function's backup_scope: name -> object
    returned,       \* the constants the evaluations so far returned, in order
    steps,          \* iterations of the interpreter loop in this evaluation
    epc,            \* "idle" between evaluations, "run" inside one, "error"
    init_decl,      \* the function declaration as the parser handed it over
    \* the state of one call of has_const_only_constructs on a call site
    scan_scope,     \* AST_INTERNAL::current_scope: name -> the node it is bound to
    scan_call,      \* the call simplify() asks about, line 1337
    scan_stack,     \* the activations of has_const_only_constructs, innermost last:
                    \* [node, at, in_callee], at being 0 before the tests on the type
                    \* and then the position of the loop over the children
    scan_recommend, \* recommend_const_eval, the bool the activations share by reference
    scan_ret,       \* what the activation that just returned returned, or "none"
    scan_pc,        \* "idle", "run", "returned", "overflow" (out of stack)
    \* the state of parse_aiger_ascii from the symbol table on
    inputs,         \* std::vector<RTLIL::Wire*> inputs: the wires, by identity
    latches,        \* std::vector<RTLIL::Wire*> latches
    outputs,        \* std::vector<RTLIL::Wire*> outputs
    symbols,        \* the lines of the stream f not yet read: [c, l1, s]
    wire_names,     \* wire -> its name in the module
    indexed,        \* the subscripts applied to the three vectors so far: [c, at, size]
    aiger_error,    \* the log_error message, or ""
    aiger_pc        \* "idle", "symbols", "done", "error", "crash"

vars == <<children, mod_attributes, flag_nomem2reg, flag_mem2reg, pc, autoidx,
          nextuid, mem2reg_candidates, mem2reg_set, const_fold, retval, error,
          trace, init_children>>

evars == <<current_scope, func_decl, fcall, func_workspace, block_children, variables,
           backup_scope, returned, steps, epc, init_decl>>

svars == <<scan_scope, scan_call, scan_stack, scan_recommend, scan_ret, scan_pc>>

avars == <<inputs, latches, outputs, symbols, wire_names, indexed, aiger_error, aiger_pc>>

\* has_const_only_constructs not running
NoScan ==
    /\ scan_scope = <<>>
    /\ scan_call = <<>>
    /\ scan_stack = <<>>
    /\ scan_recommend = FALSE
    /\ scan_ret = "none"
    /\ scan_pc = "idle"

\* parse_aiger_ascii not running
NoAiger ==
    /\ inputs = <<>> /\ latches = <<>> /\ outputs = <<>>
    /\ symbols = <<>>
    /\ wire_names = <<>>
    /\ indexed = <<>>
    /\ aiger_error = ""
    /\ aiger_pc = "idle"

(***************************************************************************)
(* Bounds of the model.                                                    *)
(***************************************************************************)
MaxMemSize == 2     \* memories have 1 .. MaxMemSize words
MaxPasses == 8      \* cap on the passes of one fixed-point loop

(***************************************************************************)
(* Nodes.                                                                  *)
(***************************************************************************)
AttrNames == {"\\mem2reg", "\\nomem2reg", "\\nosync", "\\keep"}
NoAttr == 0 - 1
NoAttributes == [a \in AttrNames |-> NoAttr]

Node(t, s, ch) ==
    [type |-> t, str |-> s, children |-> ch, uid |-> 0, id2ast |-> 0,
     is_input |-> FALSE, is_output |-> FALSE, is_reg |-> FALSE,
     is_signed |-> FALSE, port_id |-> 0,
     range_valid |-> FALSE, range_left |-> 0 - 1, range_right |-> 0,
     integer |-> 0, bits |-> <<>>, attributes |-> NoAttributes]

mkconst_int(v) == [Node("AST_CONSTANT", <<>>, <<>>) EXCEPT !.integer = v]

get_bool_attribute(n, id) == n.attributes[id] # NoAttr /\ n.attributes[id] # 0

IsDecl(n) ==
    n.type \in {"AST_PARAMETER", "AST_LOCALPARAM", "AST_WIRE", "AST_AUTOWIRE",
                "AST_GENVAR", "AST_MEMORY", "AST_FUNCTION", "AST_TASK", "AST_CELL"}

\* the position in the child list ch of the node with identity u, 0 if none
IndexOfUid(ch, u) ==
    IF \E i \in 1..Len(ch) : ch[i].uid = u
    THEN CHOOSE i \in 1..Len(ch) : ch[i].uid = u
    ELSE 0

RemoveAt(s, i) == SubSeq(s, 1, i - 1) \o SubSeq(s, i + 1, Len(s))
InsertAt(s, i, e) == SubSeq(s, 1, i - 1) \o <<e>> \o SubSeq(s, i, Len(s))

(***************************************************************************)
(* Wire merging at the module root, lines 173-231.                         *)
(***************************************************************************)
\* a compatibility check that lets a later declaration give a direction to a
\* wire without port position
WiresAreCompatibleUpgrade(first_node, node) ==
    IF ~node.is_input /\ ~node.is_output /\ node.is_reg /\ Len(node.children) = 0
    THEN TRUE
    ELSE IF Len(first_node.children) # Len(node.children) THEN FALSE
    ELSE IF \E j \in 1..Len(node.children) :
               LET n1 == first_node.children[j]
                   n2 == node.children[j]
               IN  IF n1.type = "AST_RANGE" /\ n2.type = "AST_RANGE"
                      /\ n1.range_valid /\ n2.range_valid
                   THEN n1.range_left # n2.range_left \/ n1.range_right # n2.range_right
                   ELSE n1 # n2
         THEN FALSE
    ELSE IF first_node.range_left # node.range_left THEN FALSE
    ELSE IF first_node.range_right # node.range_right THEN FALSE
    ELSE TRUE

\* lines 181-200
WiresAreCompatible(first_node, node) ==
    IF ~node.is_input /\ ~node.is_output /\ node.is_reg /\ Len(node.children) = 0
    THEN TRUE
    ELSE IF Len(first_node.children) # Len(node.children) THEN FALSE
    ELSE IF \E j \in 1..Len(node.children) :
               LET n1 == first_node.children[j]
                   n2 == node.children[j]
               IN  IF n1.type = "AST_RANGE" /\ n2.type = "AST_RANGE"
                      /\ n1.range_valid /\ n2.range_valid
                   THEN n1.range_left # n2.range_left \/ n1.range_right # n2.range_right
                   ELSE n1 # n2
         THEN FALSE
    ELSE IF first_node.range_left # node.range_left THEN FALSE
    ELSE IF first_node.range_right # node.range_right THEN FALSE
    ELSE IF first_node.port_id = 0 /\ (node.is_input \/ node.is_output) THEN FALSE
    ELSE TRUE

\* a merge in which the attributes of the first declaration win
MergeWireFirstWins(first_node, node) ==
    [first_node EXCEPT
        !.is_input = @ \/ node.is_input,
        !.is_output = @ \/ node.is_output,
        !.is_reg = @ \/ node.is_reg,
        !.is_signed = @ \/ node.is_signed,
        !.attributes = [a \in AttrNames |->
                          IF @[a] # NoAttr THEN @[a] ELSE node.attributes[a]]]

\* lines 201-214
MergeWire(first_node, node) ==
    [first_node EXCEPT
        !.is_input = @ \/ node.is_input,
        !.is_output = @ \/ node.is_output,
        !.is_reg = @ \/ node.is_reg,
        !.is_signed = @ \/ node.is_signed,
        !.attributes = [a \in AttrNames |->
                          IF node.attributes[a] # NoAttr THEN node.attributes[a] ELSE @[a]]]

\* an incompatible re-declaration that is an error at every stage
IncompatibleIsFatalAlways(stage) == stage > 0

\* line 221: the stages at which an incompatible re-declaration is an error
IncompatibleIsFatal(stage) == stage > 1

\* The loop of lines 176-231 from child index i on. tws is this_wire_scope
\* (name -> position of the first declaration), scope is current_scope.
RECURSIVE ModuleScopeLoop(_, _, _, _, _, _)
ModuleScopeLoop(ch, i, tws, scope, did, stage) ==
    IF i > Len(ch) THEN [ch |-> ch, scope |-> scope, did |-> did, err |-> ""]
    ELSE LET node == ch[i] IN
      IF node.type = "AST_WIRE" /\ node.str \in DOMAIN tws
      THEN LET fi == tws[node.str] IN
           IF WiresAreCompatible(ch[fi], node)
           THEN ModuleScopeLoop(RemoveAt([ch EXCEPT ![fi] = MergeWire(ch[fi], node)], i),
                                i, tws, scope, TRUE, stage)
           ELSE IF IncompatibleIsFatal(stage)
           THEN [ch |-> ch, scope |-> scope, did |-> did,
                 err |-> "Incompatible re-declaration of wire"]
           ELSE ModuleScopeLoop(ch, i + 1, tws, scope, did, stage)
      ELSE ModuleScopeLoop(ch, i + 1,
                           IF node.type = "AST_WIRE" THEN (node.str :> i) @@ tws ELSE tws,
                           IF IsDecl(node) THEN (node.str :> node.uid) @@ scope ELSE scope,
                           did, stage)

(***************************************************************************)
(* The state a rewrite threads through the tree.  c.mod is                 *)
(* current_ast_mod->children, c.scope is current_scope (name -> uid),      *)
(* c.tmp holds the nodes that are in scope without being children of the   *)
(* module (the loop variable of a for loop), c.topins the statements to be *)
(* inserted at the begin of current_top_block, c.blockins the statements  *)
(* to be inserted into current_block before current_block_child, c.err the *)
(* log_error text.                                                         *)
(* f holds the arguments of simplify and current_block != NULL.            *)
(***************************************************************************)
NoScope == [x \in {} |-> 0]

Ctx(mod, ai, nu) ==
    [mod |-> mod, scope |-> NoScope, tmp |-> NoScope, autoidx |-> ai,
     nextuid |-> nu, err |-> "", topins |-> <<>>, blockins |-> <<>>]

Args(stage) ==
    [stage |-> stage, const_fold |-> FALSE, at_zero |-> FALSE, in_lvalue |-> FALSE,
     in_param |-> FALSE, in_block |-> FALSE]

\* names the result v of one step for the steps Then that follow it
Let(v, Then(_)) == Then(v)

Fail(c, msg) == IF c.err = "" THEN [c EXCEPT !.err = msg] ELSE c

\* the node a pointer refers to
Lookup(c, u) ==
    IF IndexOfUid(c.mod, u) # 0 THEN c.mod[IndexOfUid(c.mod, u)]
    ELSE IF u \in DOMAIN c.tmp THEN c.tmp[u]
    ELSE Node("AST_NONE", <<>>, <<>>)

\* current_ast_mod->children.push_back(node); a declaration gets its identity
PushBack(c, node) ==
    IF IsDecl(node) /\ node.uid = 0
    THEN [c EXCEPT !.mod = Append(@, [node EXCEPT !.uid = c.nextuid]),
                   !.nextuid = @ + 1]
    ELSE [c EXCEPT !.mod = Append(@, node)]

\* "name[index]" as the last component of a name
Indexed(s, i) ==
    IF s = <<>> THEN <<"[" \o ToString(i) \o "]">>
    ELSE SubSeq(s, 1, Len(s) - 1) \o <<s[Len(s)] \o "[" \o ToString(i) \o "]">>

(***************************************************************************)
(* annotate constant ranges, lines 503-529                                 *)
(***************************************************************************)
AnnotateRange(n, did) ==
    LET ch == n.children
        v0 == ch[1].type = "AST_CONSTANT"
        valid == v0 /\ (Len(ch) >= 2 => ch[2].type = "AST_CONSTANT")
        left == IF v0 THEN ch[1].integer ELSE 0 - 1
        right == IF Len(ch) >= 2
                 THEN (IF ch[2].type = "AST_CONSTANT" THEN ch[2].integer ELSE 0)
                 ELSE (IF v0 THEN left ELSE 0)
        swap == valid /\ left >= 0 /\ right > left
    IN  [n |-> [n EXCEPT !.range_valid = valid,
                         !.range_left = IF swap THEN right ELSE left,
                         !.range_right = IF swap THEN left ELSE right],
         did |-> did \/ (n.range_valid # valid)]

(***************************************************************************)
(* annotate wires with their ranges, lines 531-548                         *)
(***************************************************************************)
AnnotateWire(n, did) ==
    IF Len(n.children) > 0
    THEN IF n.children[1].range_valid
         THEN [n |-> [n EXCEPT !.range_valid = TRUE,
                               !.range_left = n.children[1].range_left,
                               !.range_right = n.children[1].range_right],
               did |-> did \/ ~n.range_valid]
         ELSE [n |-> n, did |-> did]
    ELSE [n |-> [n EXCEPT !.range_valid = TRUE, !.range_left = 0, !.range_right = 0],
          did |-> did \/ ~n.range_valid]

(***************************************************************************)
(* annotate identifiers using scope resolution and create auto-wires as    *)
(* needed, lines 584-607                                                   *)
(***************************************************************************)
ResolvableInModule(node, str) ==
    /\ node.type \in {"AST_PARAMETER", "AST_LOCALPARAM", "AST_WIRE", "AST_AUTOWIRE",
                      "AST_GENVAR", "AST_MEMORY", "AST_FUNCTION", "AST_TASK"}
    /\ node.str = str

\* a resolution that never looks again at an identifier that has an id2ast
ResolveIdentifierOnce(n, c, did) ==
    LET hits == {i \in 1..Len(c.mod) : ResolvableInModule(c.mod[i], n.str)}
        first == CHOOSE i \in hits : \A j \in hits : i <= j
        c1 == IF n.str \notin DOMAIN c.scope /\ hits # {}
              THEN [c EXCEPT !.scope = (n.str :> c.mod[first].uid) @@ @]
              ELSE c
        auto_wire == [Node("AST_AUTOWIRE", n.str, <<>>) EXCEPT !.uid = c1.nextuid]
        mk == n.str \notin DOMAIN c1.scope
        c2 == IF mk
              THEN [c1 EXCEPT !.mod = Append(@, auto_wire),
                              !.scope = (n.str :> auto_wire.uid) @@ @,
                              !.nextuid = @ + 1]
              ELSE c1
    IN  IF n.id2ast # 0 THEN [n |-> n, c |-> c, did |-> did]
        ELSE [n |-> [n EXCEPT !.id2ast = c2.scope[n.str]], c |-> c2, did |-> TRUE]

\* annotate identifiers using scope resolution and create auto-wires as needed,
\* lines 584-607
ResolveIdentifier(n, c, did) ==
    LET hits == {i \in 1..Len(c.mod) : ResolvableInModule(c.mod[i], n.str)}
        first == CHOOSE i \in hits : \A j \in hits : i <= j
        c1 == IF n.str \notin DOMAIN c.scope /\ hits # {}
              THEN [c EXCEPT !.scope = (n.str :> c.mod[first].uid) @@ @]
              ELSE c
        auto_wire == [Node("AST_AUTOWIRE", n.str, <<>>) EXCEPT !.uid = c1.nextuid]
        mk == n.str \notin DOMAIN c1.scope
        c2 == IF mk
              THEN [c1 EXCEPT !.mod = Append(@, auto_wire),
                              !.scope = (n.str :> auto_wire.uid) @@ @,
                              !.nextuid = @ + 1]
              ELSE c1
    IN  [n |-> [n EXCEPT !.id2ast = c2.scope[n.str]],
         c |-> c2,
         did |-> did \/ mk \/ n.id2ast # c2.scope[n.str]]

(***************************************************************************)
(* expand_genblock, lines 1722-1775                                        *)
(***************************************************************************)
RECURSIVE replace_result_wire_name_in_function(_, _, _)
replace_result_wire_name_in_function(node, from, to) ==
    LET ch == [i \in 1..Len(node.children) |->
                  replace_result_wire_name_in_function(node.children[i], from, to)]
    IN  [node EXCEPT !.children = ch, !.str = IF node.str = from THEN to ELSE @]

\* lines 1749-1757: the prefix goes in front of the last component of the name
PrefixedName(str, prefix) == SubSeq(str, 1, Len(str) - 1) \o prefix \o <<str[Len(str)]>>

IsGenblockDecl(child) ==
    child.type \in {"AST_WIRE", "AST_MEMORY", "AST_PARAMETER", "AST_LOCALPARAM",
                    "AST_FUNCTION", "AST_TASK", "AST_CELL"}

\* lines 1743-1765 from child i on; backup is backup_name_map
RECURSIVE ExpandDeclLoop(_, _, _, _, _, _)
ExpandDeclLoop(n, i, prefix, c, nm, backup) ==
    IF i > Len(n.children) THEN [n |-> n, c |-> c, nm |-> nm, backup |-> backup]
    ELSE LET child == n.children[i] IN
      IF IsGenblockDecl(child)
      THEN LET new_name == PrefixedName(child.str, prefix)
               u == IF child.uid = 0 THEN c.nextuid ELSE child.uid
               renamed == IF child.type = "AST_FUNCTION"
                          THEN replace_result_wire_name_in_function(child, child.str, new_name)
                          ELSE [child EXCEPT !.str = new_name]
               child2 == [renamed EXCEPT !.uid = u]
           IN  ExpandDeclLoop([n EXCEPT !.children[i] = child2], i + 1, prefix,
                              [c EXCEPT !.scope = (new_name :> u) @@ @,
                                        !.tmp = (u :> child2) @@ @,
                                        !.nextuid = IF child.uid = 0 THEN @ + 1 ELSE @],
                              (child.str :> new_name) @@ nm,
                              IF backup = NoScope THEN nm ELSE backup)
      ELSE ExpandDeclLoop(n, i + 1, prefix, c, nm, backup)

RECURSIVE expand_genblock(_, _, _, _, _), ExpandChildLoop(_, _, _, _, _, _)
expand_genblock(n, index_var, prefix, c, nm) ==
    IF index_var # <<>> /\ n.type = "AST_IDENTIFIER" /\ n.str = index_var
    THEN [n |-> Lookup(c, c.scope[index_var]).children[1], c |-> c, nm |-> nm]
    ELSE LET n1 == IF n.type \in {"AST_IDENTIFIER", "AST_FCALL", "AST_TCALL"}
                      /\ n.str \in DOMAIN nm
                   THEN [n EXCEPT !.str = nm[n.str]] ELSE n
             d == ExpandDeclLoop(n1, 1, prefix, c, nm, NoScope)
             r == ExpandChildLoop(d.n, 1, index_var, prefix, d.c, d.nm)
         IN  [n |-> r.n, c |-> r.c, nm |-> IF d.backup # NoScope THEN d.backup ELSE r.nm]

\* lines 1767-1771 from child i on
ExpandChildLoop(n, i, index_var, prefix, c, nm) ==
    IF i > Len(n.children) THEN [n |-> n, c |-> c, nm |-> nm]
    ELSE IF n.children[i].type \in {"AST_FUNCTION", "AST_TASK", "AST_PREFIX"}
    THEN ExpandChildLoop(n, i + 1, index_var, prefix, c, nm)
    ELSE LET r == expand_genblock(n.children[i], index_var, prefix, c, nm)
         IN  ExpandChildLoop([n EXCEPT !.children[i] = r.n], i + 1, index_var, prefix, r.c, r.nm)

(***************************************************************************)
(* The rewrite AstNode::simplify for stage >= 1, lines 145-1720.           *)
(***************************************************************************)
\* lines 159-167: what must be evaluated statically
Activate(n, c, f) ==
    LET cf == \/ n.type \in {"AST_WIRE", "AST_PARAMETER", "AST_LOCALPARAM", "AST_DEFPARAM",
                             "AST_PARASET", "AST_RANGE", "AST_PREFIX"}
              \/ /\ n.type = "AST_IDENTIFIER" /\ n.str \in DOMAIN c.scope
                 /\ Lookup(c, c.scope[n.str]).type \in {"AST_PARAMETER", "AST_LOCALPARAM"}
        ip == n.type \in {"AST_PARAMETER", "AST_LOCALPARAM", "AST_DEFPARAM",
                          "AST_PARASET", "AST_PREFIX"}
    IN  [f EXCEPT !.const_fold = @ \/ cf, !.in_param = @ \/ ip]

\* lines 398-421: the arguments child i (counted from 1) is simplified with
ChildArgs(n, i, f) ==
    [f EXCEPT
       !.const_fold = @ \/ (i = 1 /\ n.type \in {"AST_REPLICATE", "AST_WIRE"})
                        \/ n.type \in {"AST_PARAMETER", "AST_LOCALPARAM"},
       !.in_param = @ \/ (i = 1 /\ n.type \in {"AST_REPLICATE", "AST_WIRE"}),
       !.in_lvalue = @ \/ (i = 1 /\ n.type \in {"AST_ASSIGN", "AST_ASSIGN_EQ", "AST_ASSIGN_LE"}),
       !.in_block = @ \/ n.type = "AST_BLOCK"]

\* lines 387-396: the children that are not simplified
SkipChildrenFrom(n, i) ==
    \/ n.type \in {"AST_GENFOR", "AST_FOR"} /\ i > 3
    \/ n.type \in {"AST_GENIF", "AST_GENCASE"} /\ i > 1
    \/ n.type = "AST_GENBLOCK"
    \/ n.type = "AST_BLOCK" /\ n.str # <<>>
    \/ n.type = "AST_PREFIX" /\ i > 1

\* calculate memory dimensions, lines 2059-2073
Abs(x) == IF x < 0 THEN 0 - x ELSE x
Min(a, b) == IF a < b THEN a ELSE b
mem_width(mem) == mem.children[1].range_left - mem.children[1].range_right + 1
mem_size(mem) ==
    Abs(mem.children[2].range_left - mem.children[2].range_right)
    + Min(mem.children[2].range_left, mem.children[2].range_right) + 1
addr_bits(mem) == CHOOSE b \in 1..32 : 2^b >= mem_size(mem) /\ \A k \in 1..(b - 1) : 2^k < mem_size(mem)

RECURSIVE Flat(_)
Flat(str) == IF Len(str) = 0 THEN "" ELSE IF Len(str) = 1 THEN str[1]
             ELSE str[1] \o "." \o Flat(Tail(str))

Ident(str) == Node("AST_IDENTIFIER", str, <<>>)
ConstRange(l, r) == Node("AST_RANGE", <<>>, <<mkconst_int(l), mkconst_int(r)>>)

\* perform const folding when activated, lines 1450-1700 (the operators of the model)
ConstFold(n, c, f) ==
    IF ~f.const_fold THEN [n |-> n, did |-> FALSE]
    ELSE IF n.type = "AST_IDENTIFIER"
    THEN IF /\ n.str \in DOMAIN c.scope
            /\ Lookup(c, c.scope[n.str]).type \in {"AST_PARAMETER", "AST_LOCALPARAM"}
            /\ Lookup(c, c.scope[n.str]).children[1].type = "AST_CONSTANT"
            /\ Len(n.children) = 0
         THEN [n |-> Lookup(c, c.scope[n.str]).children[1], did |-> TRUE]
         ELSE IF /\ f.at_zero /\ n.str \in DOMAIN c.scope
                 /\ Lookup(c, c.scope[n.str]).type \in {"AST_WIRE", "AST_AUTOWIRE"}
         THEN [n |-> mkconst_int(0), did |-> TRUE]
         ELSE [n |-> n, did |-> FALSE]
    ELSE IF n.type \in {"AST_LT", "AST_ADD"}
            /\ n.children[1].type = "AST_CONSTANT" /\ n.children[2].type = "AST_CONSTANT"
    THEN [n |-> mkconst_int(IF n.type = "AST_ADD"
                            THEN n.children[1].integer + n.children[2].integer
                            ELSE IF n.children[1].integer < n.children[2].integer THEN 1 ELSE 0),
          did |-> TRUE]
    ELSE IF n.type = "AST_NEG" /\ n.children[1].type = "AST_CONSTANT"
    THEN [n |-> mkconst_int(0 - n.children[1].integer), did |-> TRUE]
    ELSE [n |-> n, did |-> FALSE]

\* convert defparam nodes to cell parameters, lines 461-475
Defparam(n, c, did) ==
    IF Len(n.str) < 2
    THEN [n |-> n, c |-> Fail(c, "Defparam does not contain a dot"), did |-> did]
    ELSE LET modname == SubSeq(n.str, 1, Len(n.str) - 1)
             paraname == <<n.str[Len(n.str)]>>
         IN  IF modname \notin DOMAIN c.scope
                \/ Lookup(c, c.scope[modname]).type # "AST_CELL"
             THEN [n |-> n, c |-> Fail(c, "Can't find cell for defparam"), did |-> did]
             ELSE LET ci == IndexOfUid(c.mod, c.scope[modname])
                      paraset == [n EXCEPT !.type = "AST_PARASET", !.str = paraname]
                  IN  [n |-> [n EXCEPT !.str = <<>>],
                       c |-> IF ci = 0 THEN c
                             ELSE [c EXCEPT !.mod[ci].children = InsertAt(@, 2, paraset)],
                       did |-> did]

\* resolve constant prefixes, lines 477-490
Prefix(n, c) ==
    IF n.children[1].type # "AST_CONSTANT"
    THEN [n |-> n, c |-> Fail(c, "Index in generate block prefix syntax is not constant"),
          did |-> FALSE]
    ELSE [n |-> [n.children[2] EXCEPT
                   !.str = Indexed(n.str, n.children[1].integer) \o n.children[2].str],
          c |-> c, did |-> TRUE]

\* unroll cell arrays, lines 929-952
CellArray(n, c) ==
    IF ~n.children[1].range_valid
    THEN [n |-> n, c |-> Fail(c, "Non-constant array range on cell array"), did |-> FALSE]
    ELSE LET rl == n.children[1].range_left
             rr == n.children[1].range_right
             num == Abs(rl - rr) + 1
             cell == n.children[2]
             new_cell(i) ==
                 [cell EXCEPT
                    !.str = Indexed(@, IF rl > rr THEN rr + i ELSE rr - i),
                    !.children[1].str =
                        <<"$array:" \o ToString(i) \o ":" \o ToString(num) \o ":" \o Flat(@)>>]
         IN  IF cell.type = "AST_PRIMITIVE"
             THEN [n |-> n, c |-> Fail(c, "Cell arrays of primitives are currently not supported"),
                   did |-> FALSE]
             ELSE IF Len(cell.children) = 0 \/ cell.children[1].type # "AST_CELLTYPE"
             THEN [n |-> n, did |-> FALSE,
                   c |-> Fail(c, "Assert `new_cell->children.at(0)->type == AST_CELLTYPE' failed")]
             ELSE [n |-> Node("AST_GENBLOCK", <<>>, [i \in 1..num |-> new_cell(i - 1)]),
                   c |-> c, did |-> TRUE]

\* replace primitives with assignments, lines 954-1034
RECURSIVE PrimitiveChain(_, _, _, _)
PrimitiveChain(op_type, node, list, i) ==
    IF i > Len(list) THEN node
    ELSE PrimitiveChain(op_type, Node(op_type, <<>>, <<node, list[i]>>), list, i + 1)

Primitive(n, c, did) ==
    LET name == n.str[1]
        list == [i \in 1..Len(n.children) |-> n.children[i].children[1]]
        z_const == [mkconst_int(0) EXCEPT !.str = <<"z">>]
        assign(rhs) == [n EXCEPT !.type = "AST_ASSIGN", !.str = <<>>,
                                 !.children = <<list[1], rhs>>]
    IN  IF Len(n.children) < 2
        THEN [n |-> n, c |-> Fail(c, "Insufficient number of arguments for primitive"), did |-> did]
        ELSE IF name \in {"bufif0", "bufif1", "notif0", "notif1"}
        THEN IF Len(list) # 3
             THEN [n |-> n, c |-> Fail(c, "Invalid number of arguments for primitive"), did |-> did]
             ELSE LET mux_input == IF name \in {"notif0", "notif1"}
                                   THEN Node("AST_BIT_NOT", <<>>, <<list[2]>>) ELSE list[2]
                      node == Node("AST_TERNARY", <<>>,
                                   IF name = "bufif0" THEN <<list[3], z_const, mux_input>>
                                   ELSE <<list[3], mux_input, z_const>>)
                  IN  [n |-> assign(node), c |-> c, did |-> TRUE]
        ELSE LET op_type == CASE name \in {"and", "nand"} -> "AST_BIT_AND"
                              [] name \in {"or", "nor"} -> "AST_BIT_OR"
                              [] name \in {"xor", "xnor"} -> "AST_BIT_XOR"
                              [] OTHER -> "AST_POS"
                 invert_results == name \in {"nand", "nor", "xnor", "not"}
                 chain == IF op_type # "AST_POS"
                          THEN PrimitiveChain(op_type, list[2], list, 3) ELSE list[2]
                 node == IF invert_results THEN Node("AST_BIT_NOT", <<>>, <<chain>>) ELSE chain
             IN  [n |-> assign(node), c |-> c, did |-> TRUE]

RECURSIVE Simp(_, _, _), SimpFix(_, _, _), SimpFixFrom(_, _, _, _), ChildLoop(_, _, _, _, _), Rewrite(_, _, _, _),
          SpliceLoop(_, _, _, _), GenforLoop(_, _, _, _, _), ScanArm(_, _, _, _, _, _, _)

\* while (node->simplify(...)) { }     any: some call returned true
SimpFixFrom(n, c, f, any) ==
    Let(Simp(n, c, f), LAMBDA r :
        IF r.did /\ r.c.err = "" THEN SimpFixFrom(r.n, r.c, f, TRUE)
        ELSE [n |-> r.n, c |-> r.c, did |-> r.did, any |-> any \/ r.did])

SimpFix(n, c, f) == SimpFixFrom(n, c, f, FALSE)

\* buf->children[i]->simplify(false, false, false, stage, -1, false, false);
\* current_ast_mod->children.push_back(buf->children[i]);   for i, i+1, ...
SpliceLoop(list, i, c, stage) ==
    IF i > Len(list) \/ c.err # "" THEN c
    ELSE Let(Simp(list[i], c, Args(stage)), LAMBDA r :
             SpliceLoop(list, i + 1, PushBack(r.c, r.n), stage))

\* a new wire [l:r] of the module: push_back, then while (wire->simplify(true, ..., 1, ...)) { }
NewWire(c, str, l, r, is_reg, nosync) ==
    Let(SimpFix([Node("AST_WIRE", str, <<ConstRange(l, r)>>) EXCEPT
                    !.uid = c.nextuid, !.is_reg = is_reg,
                    !.attributes["\\nosync"] = IF nosync THEN 1 ELSE NoAttr],
                [c EXCEPT !.nextuid = @ + 1],
                [Args(1) EXCEPT !.const_fold = TRUE]),
        LAMBDA s : [s.c EXCEPT !.mod = Append(@, s.n)])

\* a generate block that was selected: prefix its names and splice it into the module
SpliceGenblock(buf, c, stage) ==
    Let(IF buf.str # <<>> THEN expand_genblock(buf, <<>>, buf.str, c, NoScope)
        ELSE [n |-> buf, c |-> c],
        LAMBDA e : SpliceLoop(e.n.children, 1, e.c, stage))

AsGenblock(buf) == IF buf.type = "AST_GENBLOCK" THEN buf ELSE Node("AST_GENBLOCK", <<>>, <<buf>>)

\* lines 672-674
RECURSIVE UnwrapBody(_)
UnwrapBody(body_ast) ==
    IF body_ast.type = "AST_GENBLOCK" /\ body_ast.str = <<>> /\ Len(body_ast.children) = 1
       /\ body_ast.children[1].type = "AST_GENBLOCK"
    THEN UnwrapBody(body_ast.children[1]) ELSE body_ast

\* an unrolling that numbers every copy of the body 0
IndexOfFirst(varbuf) == 0

\* int index = varbuf->children[0]->integer;  line 732
IndexOf(varbuf) == varbuf.children[1].integer

\* the statements of an iteration in front of those of the iterations before
BlockInsertFirst(blockins, stmts) == stmts \o blockins

\* lines 753-754: current_block->children.insert(.. + current_block_idx++, ..),
\* the statements of an iteration go behind those of the iterations before
BlockInsert(blockins, stmts) == blockins \o stmts

\* the loop of lines 716-768; vu is the identity of varbuf
GenforLoop(n, body_ast, c, f, vu) ==
    \* eval 2nd expression
    Let(SimpFix(n.children[2], c, [Args(f.stage) EXCEPT !.const_fold = TRUE]), LAMBDA b :
    IF b.c.err # "" THEN b.c
    ELSE IF b.n.type # "AST_CONSTANT"
    THEN Fail(b.c, "2nd expression of generate for-loop is not constant")
    ELSE IF b.n.integer = 0 THEN b.c
    ELSE
    \* expand body
    Let(LET varbuf == b.c.tmp[vu]
            index == IndexOf(varbuf)
            buf0 == AsGenblock(body_ast)
            anon == buf0.str = <<>>
            buf == IF anon
                   THEN [buf0 EXCEPT !.str = <<"$genblock$" \o ToString(b.c.autoidx)>>]
                   ELSE buf0
            c1 == IF anon THEN [b.c EXCEPT !.autoidx = @ + 1] ELSE b.c
        IN  expand_genblock(buf, varbuf.str, Indexed(buf.str, index), c1, NoScope), LAMBDA e :
    \* simplify the expanded block and splice it into the module (a for loop:
    \* insert it into current_block at current_block_idx++), eval 3rd expression
    Let(SimpFix(n.children[3].children[2],
                IF n.type = "AST_GENFOR" THEN SpliceLoop(e.n.children, 1, e.c, f.stage)
                ELSE [e.c EXCEPT !.blockins = BlockInsert(@, e.n.children)],
                [Args(f.stage) EXCEPT !.const_fold = TRUE]), LAMBDA st :
    IF st.c.err # "" THEN st.c
    ELSE IF st.n.type # "AST_CONSTANT"
    THEN Fail(st.c, "Right hand side of 3rd expression of generate for-loop is not constant")
    ELSE GenforLoop(n, body_ast, [st.c EXCEPT !.tmp[vu].children = <<st.n>>], f, vu))))

\* unroll for loops and generate-for blocks, lines 664-774
Genfor(n, c, f) ==
    LET init_ast == n.children[1]
        next_ast == n.children[3]
        body_ast == UnwrapBody(n.children[4])
        want == IF n.type = "AST_GENFOR" THEN "AST_GENVAR" ELSE "AST_WIRE"
        bad(a) == a.children[1].id2ast = 0 \/ Lookup(c, a.children[1].id2ast).type # want
        keep(msg) == [n |-> n, c |-> Fail(c, msg), did |-> FALSE]
    IN  IF init_ast.type # "AST_ASSIGN_EQ"
        THEN keep("Unsupported 1st expression of generate for-loop")
        ELSE IF next_ast.type # "AST_ASSIGN_EQ"
        THEN keep("Unsupported 3rd expression of generate for-loop")
        ELSE IF bad(init_ast)
        THEN keep("Left hand side of 1st expression of generate for-loop is not a gen var")
        ELSE IF bad(next_ast)
        THEN keep("Left hand side of 3rd expression of generate for-loop is not a gen var")
        ELSE IF init_ast.children[1].id2ast # next_ast.children[1].id2ast
        THEN keep("Incompatible left-hand sides in 1st and 3rd expression of generate for-loop")
        ELSE
        \* eval 1st expression
        Let(SimpFix(init_ast.children[2], c, [Args(f.stage) EXCEPT !.const_fold = TRUE]),
            LAMBDA v :
        IF v.c.err # "" THEN [n |-> n, c |-> v.c, did |-> FALSE]
        ELSE IF v.n.type # "AST_CONSTANT"
        THEN [n |-> n, did |-> FALSE,
              c |-> Fail(v.c, "Right hand side of 1st expression of generate for-loop is not constant")]
        ELSE LET name == init_ast.children[1].str
                 vu == v.c.nextuid
                 varbuf == [Node("AST_LOCALPARAM", name, <<v.n>>) EXCEPT !.uid = vu]
                 had == name \in DOMAIN v.c.scope
                 backup_scope_varbuf == IF had THEN v.c.scope[name] ELSE 0
                 c1 == [v.c EXCEPT !.nextuid = @ + 1,
                                   !.tmp = (vu :> varbuf) @@ @,
                                   !.scope = (name :> vu) @@ @]
             IN  Let(GenforLoop(n, body_ast, c1, f, vu), LAMBDA c2 :
                     \* log_error inside the loop never reaches lines 770-773
                     IF c2.err # "" THEN [n |-> n, c |-> c2, did |-> FALSE]
                     ELSE [n |-> [n EXCEPT !.children = <<>>],
                           c |-> [c2 EXCEPT !.scope = (name :> backup_scope_varbuf) @@ @,
                                            !.tmp = [u \in DOMAIN @ \ {vu} |-> @[u]]],
                           did |-> TRUE]))

\* simplify generate-if blocks, lines 812-851
Genif(n, c, f) ==
    Let(SimpFix(n.children[1], c, [Args(f.stage) EXCEPT !.const_fold = TRUE]), LAMBDA b :
        IF b.c.err # "" THEN [n |-> n, c |-> b.c, did |-> FALSE]
        ELSE IF b.n.type # "AST_CONSTANT"
        THEN [n |-> n, c |-> Fail(b.c, "Condition for generate if is not constant"),
              did |-> FALSE]
        ELSE [n |-> [n EXCEPT !.children = <<>>],
              c |-> IF b.n.integer # 0 \/ Len(n.children) > 2
                    THEN SpliceGenblock(
                             AsGenblock(n.children[IF b.n.integer # 0 THEN 2 ELSE 3]),
                             b.c, f.stage)
                    ELSE b.c,
              did |-> TRUE])

\* the bits of a constant; one made by mkconst_int has the 32 bits of its integer
BitsOfConst(n) ==
    IF n.bits # <<>> THEN n.bits
    ELSE [k \in 1..32 |-> IF k = 32 THEN (IF n.integer < 0 THEN "1" ELSE "0")
                           ELSE IF (n.integer \div 2^(k - 1)) % 2 = 1 THEN "1" ELSE "0"]

\* both operands extended to the wider one: with the top bit when both are
\* signed, with S0 otherwise
ExtendTo(v, width, is_signed) ==
    v \o [k \in 1..(width - Len(v)) |-> IF is_signed /\ v # <<>> THEN v[Len(v)] ELSE "0"]

\* a comparison that never takes the operands as signed
CaseEqUnsigned(ref_signed, ref_value, buf) ==
    LET w == IF Len(ref_value) > Len(BitsOfConst(buf)) THEN Len(ref_value)
             ELSE Len(BitsOfConst(buf))
    IN  ExtendTo(ref_value, w, FALSE) = ExtendTo(BitsOfConst(buf), w, FALSE)

\* RTLIL::const_eq(ref_value, buf->bitsAsConst(), ref_signed && buf->is_signed,
\*                 ref_signed && buf->is_signed, 1).as_bool(), line 897:
\* true when no bit is undefined and the extended operands are equal
CaseEq(ref_signed, ref_value, buf) ==
    LET s == ref_signed /\ buf.is_signed
        w == IF Len(ref_value) > Len(BitsOfConst(buf)) THEN Len(ref_value)
             ELSE Len(BitsOfConst(buf))
        a == ExtendTo(ref_value, w, s)
        b == ExtendTo(BitsOfConst(buf), w, s)
    IN  /\ \A k \in 1..w : a[k] # "x" /\ b[k] # "x"
        /\ a = b

\* lines 869-904 from arm i, child j on; sel is selected_case (AST_NONE for
\* NULL), ref the folded condition
ScanArm(n, i, j, c, f, ref, sel) ==
    IF i > Len(n.children) \/ c.err # "" THEN [sel |-> sel, c |-> c]
    ELSE LET arm == n.children[i]
             gb == {k \in 1..Len(arm.children) : arm.children[k].type = "AST_GENBLOCK"}
             this_genblock == IF gb = {} THEN Node("AST_NONE", <<>>, <<>>)
                              ELSE arm.children[CHOOSE k \in gb : TRUE]
         IN  IF j > Len(arm.children) THEN ScanArm(n, i + 1, 1, c, f, ref, sel)
             ELSE IF arm.children[j].type = "AST_DEFAULT"
             THEN ScanArm(n, i, j + 1, c, f, ref,
                          IF sel.type = "AST_NONE" THEN this_genblock ELSE sel)
             ELSE IF arm.children[j].type = "AST_GENBLOCK"
             THEN ScanArm(n, i, j + 1, c, f, ref, sel)
             ELSE Let(SimpFix(arm.children[j], c, [Args(f.stage) EXCEPT !.const_fold = TRUE]),
                      LAMBDA b :
                      IF b.c.err # "" THEN [sel |-> sel, c |-> b.c]
                      ELSE IF b.n.type # "AST_CONSTANT"
                      THEN [sel |-> sel,
                            c |-> Fail(b.c, "Expression in generate case is not constant")]
                      ELSE IF CaseEq(ref.is_signed, BitsOfConst(ref), b.n)
                      THEN [sel |-> this_genblock, c |-> b.c]
                      ELSE ScanArm(n, i, j + 1, b.c, f, ref, sel))

\* simplify generate-case blocks, lines 853-927
Gencase(n, c, f) ==
    Let(SimpFix(n.children[1], c, [Args(f.stage) EXCEPT !.const_fold = TRUE]), LAMBDA b :
    IF b.c.err # "" THEN [n |-> n, c |-> b.c, did |-> FALSE]
    ELSE IF b.n.type # "AST_CONSTANT"
    THEN [n |-> n, c |-> Fail(b.c, "Condition for generate case is not constant"),
          did |-> FALSE]
    ELSE
    Let(ScanArm(n, 2, 1, b.c, f, b.n, Node("AST_NONE", <<>>, <<>>)), LAMBDA a :
    IF a.c.err # "" THEN [n |-> n, c |-> a.c, did |-> FALSE]
    ELSE [n |-> [n EXCEPT !.children = <<>>],
          c |-> IF a.sel.type = "AST_NONE" THEN a.c
                ELSE SpliceGenblock(a.sel, a.c, f.stage),
          did |-> TRUE]))

\* a generate block that splices its children into the module and keeps them
GenblockKeep(n, c, f) ==
    [n |-> n, c |-> SpliceGenblock(n, c, f.stage), did |-> FALSE]

\* simplify unconditional generate block, lines 795-810
Genblock(n, c, f) ==
    [n |-> [n EXCEPT !.children = <<>>], c |-> SpliceGenblock(n, c, f.stage), did |-> TRUE]

XConst == [mkconst_int(0) EXCEPT !.str = <<"x">>]
AssignLe(str, rhs) == Node("AST_ASSIGN_LE", <<>>, <<Ident(str), rhs>>)

\* found right-hand side identifier for memory -> replace with memory read port,
\* lines 1142-1149
IsMemRd(n, c, f) ==
    /\ f.stage > 1 /\ n.type = "AST_IDENTIFIER" /\ n.id2ast # 0
    /\ Lookup(c, n.id2ast).type = "AST_MEMORY" /\ ~f.in_lvalue
    /\ Len(n.children) >= 1
    /\ n.children[1].type = "AST_RANGE" /\ Len(n.children[1].children) = 1

MemRd(n) ==
    [Node("AST_MEMRD", n.str, <<n.children[1].children[1]>>) EXCEPT !.id2ast = n.id2ast]

\* assignment with memory in left-hand side expression -> replace with memory
\* write port, lines 1151-1234
IsMemWr(n, c, f) ==
    /\ f.stage > 1 /\ n.type \in {"AST_ASSIGN_EQ", "AST_ASSIGN_LE"}
    /\ n.children[1].type = "AST_IDENTIFIER" /\ Len(n.children[1].children) = 1
    /\ n.children[1].id2ast # 0
    /\ LET mem == Lookup(c, n.children[1].id2ast)
       IN  /\ mem.type = "AST_MEMORY" /\ Len(mem.children) >= 2
           /\ mem.children[1].range_valid /\ mem.children[2].range_valid

\* current_scope[wire->str] = wire, then the wire itself
ScopedWire(c, id, width) ==
    NewWire([c EXCEPT !.scope = (id :> c.nextuid) @@ @], id, width - 1, 0, FALSE, FALSE)

MemWr(n, c) ==
    LET lhs == n.children[1]
        mem == Lookup(c, lhs.id2ast)
        base == "$memwr$" \o Flat(lhs.str) \o "$" \o ToString(c.autoidx)
        id_addr == <<base \o "_ADDR">>
        id_data == <<base \o "_DATA">>
        id_en == <<base \o "_EN">>
        c3 == ScopedWire(ScopedWire(ScopedWire([c EXCEPT !.autoidx = @ + 1],
                                               id_addr, addr_bits(mem)),
                                    id_data, mem_width(mem)),
                         id_en, mem_width(mem))
        default_signals == Node("AST_BLOCK", <<>>,
                                <<AssignLe(id_addr, XConst), AssignLe(id_data, XConst),
                                  AssignLe(id_en, mkconst_int(0))>>)
        newNode == Node("AST_BLOCK", <<>>,
                        <<AssignLe(id_addr, lhs.children[1].children[1]),
                          AssignLe(id_data, n.children[2]),
                          AssignLe(id_en, mkconst_int(1))>>)
        wrnode == Node("AST_MEMWR", lhs.str, <<Ident(id_addr), Ident(id_data), Ident(id_en)>>)
    IN  [n |-> newNode,
         c |-> [c3 EXCEPT !.topins = <<default_signals>> \o @, !.mod = Append(@, wrnode)],
         did |-> TRUE]

\* a new wire without range: push_back, current_scope[str] = wire, simplify
PlainScopedWire(c, str) ==
    Let(SimpFix([Node("AST_WIRE", str, <<>>) EXCEPT !.uid = c.nextuid],
                [c EXCEPT !.nextuid = @ + 1, !.scope = (str :> c.nextuid) @@ @],
                [Args(1) EXCEPT !.const_fold = TRUE]),
        LAMBDA s : [s.c EXCEPT !.mod = Append(@, s.n)])

\* an assertion that is lowered in whatever stage it is met
AssertStageAny(stage) == TRUE

\* stage > 1, lines 1080 and 1135
AssertStage(stage) == stage > 1

\* a module-level assert that starts without attributes
AssertAttributesNone(n) == NoAttributes

\* assertnode->attributes.swap(attributes), line 1129
AssertAttributes(n) == n.attributes

\* an assertion in a process, lines 1080-1133
IsAssertInBlock(n, f) == AssertStage(f.stage) /\ n.type = "AST_ASSERT" /\ f.in_block

AssertInBlock(n, c) ==
    LET base == "$assert$" \o ToString(c.autoidx)
        id_check == <<base \o "_CHECK">>
        id_en == <<base \o "_EN">>
        c1 == PlainScopedWire([c EXCEPT !.autoidx = @ + 1], id_check)
        c2 == PlainScopedWire(c1, id_en)
        initial == Node("AST_INITIAL", <<>>,
                        <<Node("AST_BLOCK", <<>>, <<AssignLe(id_en, mkconst_int(0))>>)>>)
        default_signals == Node("AST_BLOCK", <<>>,
                                <<AssignLe(id_check, XConst), AssignLe(id_en, mkconst_int(0))>>)
        newNode == Node("AST_BLOCK", <<>>,
                        <<AssignLe(id_check, Node("AST_REDUCE_BOOL", <<>>, <<n.children[1]>>)),
                          AssignLe(id_en, mkconst_int(1))>>)
        assertnode == [Node("AST_ASSERT", <<>>, <<Ident(id_check), Ident(id_en)>>)
                          EXCEPT !.attributes = AssertAttributes(n)]
    IN  [n |-> newNode,
         c |-> [c2 EXCEPT !.topins = <<default_signals>> \o @,
                          !.mod = @ \o <<initial, assertnode>>],
         did |-> TRUE]

\* an assertion outside of a process, lines 1135-1140
IsAssertPlain(n, f) ==
    AssertStage(f.stage) /\ n.type = "AST_ASSERT" /\ ~f.in_block /\ Len(n.children) = 1

AssertPlain(n, c) ==
    [n |-> [n EXCEPT !.children = <<Node("AST_REDUCE_BOOL", <<>>, <<n.children[1]>>),
                                    mkconst_int(1)>>],
     c |-> c, did |-> TRUE]

\* replace dynamic ranges in left-hand side expressions with a big case block
\* that selects the correct single-bit assignment, lines 1036-1078
IsDynamicRange(n, c, did) ==
    /\ n.type \in {"AST_ASSIGN_EQ", "AST_ASSIGN_LE"}
    /\ n.children[1].type = "AST_IDENTIFIER" /\ Len(n.children[1].children) # 0
    /\ ~n.children[1].children[1].range_valid /\ ~did
    /\ n.children[1].id2ast # 0 /\ Lookup(c, n.children[1].id2ast).type = "AST_WIRE"
    /\ Lookup(c, n.children[1].id2ast).range_valid

\* a case that has one arm less than the positions of the selection
DynamicRangeArmsShort(source_width, result_width) == 1..(source_width - result_width)

\* for (int i = 0; i <= source_width-result_width; i++), counted from 1
DynamicRangeArms(source_width, result_width) == 1..(source_width - result_width + 1)

DynamicRangeCase(n, c, shift_expr, result_width) ==
    LET wire == Lookup(c, n.children[1].id2ast)
        source_width == wire.range_left - wire.range_right + 1
        arms == DynamicRangeArms(source_width, result_width)
        start_bit(i) == wire.range_right + i - 1
        lvalue(i) == [n.children[1] EXCEPT !.children =
                         <<Node("AST_RANGE", <<>>,
                                <<mkconst_int(start_bit(i) + result_width - 1),
                                  mkconst_int(start_bit(i))>>)>>]
        cond(i) == Node("AST_COND", <<>>,
                        <<mkconst_int(start_bit(i)),
                          Node("AST_BLOCK", <<>>, <<Node(n.type, <<>>, <<lvalue(i), n.children[2]>>)>>)>>)
    IN  Node("AST_CASE", <<>>, <<shift_expr>> \o [i \in arms |-> cond(i)])

DynamicRange(n, c, f) ==
    LET range == n.children[1].children[1]
        zero == [Args(f.stage) EXCEPT !.const_fold = TRUE, !.at_zero = TRUE]
    IN  IF Len(range.children) = 1
        THEN [n |-> DynamicRangeCase(n, c, range.children[1], 1), c |-> c, did |-> TRUE]
        ELSE Let(SimpFix(range.children[1], c, zero), LAMBDA left_at_zero_ast :
             Let(SimpFix(range.children[2], left_at_zero_ast.c, zero), LAMBDA right_at_zero_ast :
             IF right_at_zero_ast.c.err # "" THEN [n |-> n, c |-> right_at_zero_ast.c, did |-> FALSE]
             ELSE IF \/ left_at_zero_ast.n.type # "AST_CONSTANT"
                     \/ right_at_zero_ast.n.type # "AST_CONSTANT"
             THEN [n |-> n, did |-> FALSE,
                   c |-> Fail(right_at_zero_ast.c,
                              "Unsupported expression on dynamic range select on signal")]
             ELSE [n |-> DynamicRangeCase(n, right_at_zero_ast.c, range.children[2],
                            left_at_zero_ast.n.integer - right_at_zero_ast.n.integer + 1),
                   c |-> right_at_zero_ast.c, did |-> TRUE]))

\* simplify all children first, lines 383-431, from child i on
ChildLoop(n, i, c, f, did) ==
    IF i > Len(n.children) \/ SkipChildrenFrom(n, i) \/ c.err # ""
    THEN [n |-> n, c |-> c, did |-> did]
    ELSE Let(Simp(n.children[i], c, ChildArgs(n, i, f)), LAMBDA r :
             LET top == n.type \in {"AST_ALWAYS", "AST_INITIAL"} /\ r.n.type = "AST_BLOCK"
                 child == IF top THEN [r.n EXCEPT !.children = r.c.topins \o @] ELSE r.n
                 c0 == IF top THEN [r.c EXCEPT !.topins = <<>>] ELSE r.c
                 \* what was inserted into this block stands before the child
                 ins == IF n.type = "AST_BLOCK" THEN c0.blockins ELSE <<>>
                 c1 == IF n.type = "AST_BLOCK" THEN [c0 EXCEPT !.blockins = <<>>] ELSE c0
                 n1 == [n EXCEPT !.children = SubSeq(@, 1, i - 1) \o ins \o <<child>>
                                              \o SubSeq(@, i + 1, Len(@))]
             IN  IF r.did THEN ChildLoop(n1, i, c1, f, TRUE)
                 ELSE IF f.stage = 2 /\ child.type = "AST_INITIAL"
                 THEN ChildLoop([n EXCEPT !.children = RemoveAt(@, i)], i,
                                [c1 EXCEPT !.mod = Append(@, child)], f, TRUE)
                 ELSE ChildLoop(n1, i + 1, c1, f, did))

(***************************************************************************)
(* trim/extend parameters, lines 550-582.  The initialisers of the model   *)
(* are bit vectors: the conversions of real values are left out.           *)
(***************************************************************************)
\* an extension that never repeats the top bit
extend_zero(bits, width, is_signed) ==
    IF width < Len(bits) THEN SubSeq(bits, 1, width)
    ELSE bits \o [i \in 1..(width - Len(bits)) |-> "0"]

\* RTLIL::SigSpec::extend_u0 as called on line 568: cut to width, or padded
\* with the top bit when signed and with S0 otherwise
extend_u0(bits, width, is_signed) ==
    IF width < Len(bits) THEN SubSeq(bits, 1, width)
    ELSE bits \o [i \in 1..(width - Len(bits)) |->
                     IF is_signed /\ bits # <<>> THEN bits[Len(bits)] ELSE "0"]

\* AstNode::mkconst_bits as called on line 570
RECURSIVE mkconst_bits(_, _)

IsRangedParameter(n) ==
    /\ n.type \in {"AST_PARAMETER", "AST_LOCALPARAM"}
    /\ Len(n.children) > 1 /\ n.children[2].type = "AST_RANGE"

TrimParameter(n, c, did) ==
    LET width == n.children[2].range_left - n.children[2].range_right + 1
        value == n.children[1]
        sized == IF width # Len(BitsOfConst(value))
                 THEN mkconst_bits(extend_u0(BitsOfConst(value), width, value.is_signed),
                                   value.is_signed)
                 ELSE value
    IN  IF ~n.children[2].range_valid
        THEN [n |-> n, c |-> Fail(c, "Non-constant width range on parameter decl"),
              did |-> did]
        ELSE IF value.type = "AST_CONSTANT"
        THEN [n |-> [n EXCEPT !.children[1] = [sized EXCEPT !.is_signed = n.is_signed]],
              c |-> c, did |-> did]
        ELSE [n |-> n, c |-> c, did |-> did]

(***************************************************************************)
(* replace function and task calls with the code from the function or      *)
(* task, lines 1236-1448.  The system functions of lines 1240-1326 are not *)
(* part of the model; the prefix is written without file name and line.    *)
(***************************************************************************)
RECURSIVE eval_const_function(_, _)

\* helper function, lines 1778-1785
RECURSIVE replace_ids(_, _)
replace_ids(n, rules) ==
    [n EXCEPT !.str = IF n.type = "AST_IDENTIFIER" /\ n.str \in DOMAIN rules
                      THEN rules[n.str] ELSE @,
              !.children = [i \in DOMAIN n.children |-> replace_ids(n.children[i], rules)]]

\* lines 2075-2089: [ret, recommend], recommend being recommend_const_eval
RECURSIVE has_const_only_constructs(_, _, _), ConstOnlyChildren(_, _, _, _)
has_const_only_constructs(n, c, recommend) ==
    IF n.type \in {"AST_WHILE", "AST_REPEAT"}
    THEN [ret |-> TRUE, recommend |-> recommend \/ n.type = "AST_FOR"]
    ELSE Let(IF n.type = "AST_FCALL" /\ n.str \in DOMAIN c.scope
             THEN has_const_only_constructs(Lookup(c, c.scope[n.str]), c,
                                            recommend \/ n.type = "AST_FOR")
             ELSE [ret |-> FALSE, recommend |-> recommend \/ n.type = "AST_FOR"],
             LAMBDA d : IF d.ret THEN d ELSE ConstOnlyChildren(n, 1, c, d.recommend))

ConstOnlyChildren(n, i, c, recommend) ==
    IF i > Len(n.children) THEN [ret |-> FALSE, recommend |-> recommend]
    ELSE Let(has_const_only_constructs(n.children[i], c, recommend), LAMBDA d :
             IF d.ret THEN d ELSE ConstOnlyChildren(n, i + 1, c, d.recommend))

\* a call that is never evaluated as a constant
ConstEvalNever(in_param, recommend_const_eval, require_const_eval) == FALSE

\* line 1338
ConstEval(in_param, recommend_const_eval, require_const_eval) ==
    in_param \/ recommend_const_eval \/ require_const_eval

\* lines 1341-1345: every argument is simplified as a constant expression
RECURSIVE SimplifyArgs(_, _, _, _)
SimplifyArgs(n, i, c, f) ==
    IF i > Len(n.children) \/ c.err # "" THEN [n |-> n, c |-> c]
    ELSE Let(SimpFix(n.children[i], c,
                     [f EXCEPT !.const_fold = TRUE, !.at_zero = FALSE, !.in_lvalue = FALSE,
                               !.stage = 1, !.in_param = TRUE]),
             LAMBDA r : SimplifyArgs([n EXCEPT !.children[i] = r.n], i + 1, r.c, f))

\* lines 1361-1364, for the autoidx the call takes
FunctionPrefix(str, idx) == "$func$" \o Flat(str) \o "$" \o ToString(idx) \o "$"

\* wire->str = prefix + wire->str
PrefixedWireName(prefix, str) == <<prefix \o Flat(str)>>

\* lines 1382-1388 and 1406-1412: the clone of a wire of the callee, simplified
InlinedWire(child, prefix, c) ==
    SimpFix([child EXCEPT !.str = PrefixedWireName(prefix, child.str), !.port_id = 0,
                          !.is_input = FALSE, !.is_output = FALSE, !.uid = c.nextuid],
            [c EXCEPT !.nextuid = @ + 1], [Args(1) EXCEPT !.const_fold = TRUE])

AssignEq(lhs, rhs) == Node("AST_ASSIGN_EQ", <<>>, <<lhs, rhs>>)

\* every input wire is given the first argument
NextArgumentFirst(call, arg_count) == call.children[1]

\* children[arg_count++]->clone(), line 1418
NextArgument(call, arg_count) == call.children[arg_count + 1]

\* lines 1402-1441: what is inserted before current_block_child is collected in
\* c.blockins; e is [arg_count, replace_rules]
RECURSIVE InlineLoop(_, _, _, _, _, _)
InlineLoop(decl, i, call, prefix, c, e) ==
    IF i > Len(decl.children) \/ c.err # "" THEN c
    ELSE LET child == decl.children[i]
             name == PrefixedWireName(prefix, child.str)
             is_arg == child.is_input /\ e.arg_count < Len(call.children)
         IN  IF child.type = "AST_WIRE"
             THEN Let(InlinedWire(child, prefix, c), LAMBDA s :
                      InlineLoop(decl, i + 1, call, prefix,
                          [s.c EXCEPT
                             !.mod = Append(@, s.n),
                             !.blockins = IF is_arg
                                          THEN Append(@, AssignEq(Ident(name),
                                                          NextArgument(call, e.arg_count)))
                                          ELSE @],
                          [arg_count |-> IF is_arg THEN e.arg_count + 1 ELSE e.arg_count,
                           replace_rules |-> (child.str :> name) @@ e.replace_rules]))
             ELSE InlineLoop(decl, i + 1, call, prefix,
                      [c EXCEPT !.blockins = Append(@, replace_ids(child, e.replace_rules))],
                      e)

\* lines 1369-1399: a function call outside of a process gets a wire and a process
InlineOutside(n, decl, prefix, c) ==
    LET results == {i \in 1..Len(decl.children) :
                       decl.children[i].type = "AST_WIRE" /\ decl.children[i].str = n.str}
        last == CHOOSE i \in results : \A j \in results : j <= i
        name == PrefixedWireName(prefix, n.str)
    IN  IF n.type # "AST_FCALL" THEN Fail(c, "Assert `type == AST_FCALL' failed")
        ELSE IF results = {} THEN Fail(c, "Assert `wire != NULL' failed")
        ELSE Let(InlinedWire(decl.children[last], prefix, c), LAMBDA s :
                 [s.c EXCEPT !.mod = @ \o
                     <<s.n, Node("AST_ALWAYS", <<>>,
                                 <<Node("AST_BLOCK", <<>>, <<AssignEq(Ident(name), n)>>)>>)>>])

\* lines 1360-1447
InlineCall(n, c, f) ==
    LET decl == Lookup(c, c.scope[n.str])
        prefix == FunctionPrefix(n.str, c.autoidx)
        c0 == [c EXCEPT !.autoidx = @ + 1]
    IN  Let(IF f.in_block
            THEN InlineLoop(decl, 1, n, prefix, c0,
                            [arg_count |-> 0, replace_rules |-> NoScope])
            ELSE InlineOutside(n, decl, prefix, c0),
            LAMBDA c1 :
                IF c1.err # "" THEN [n |-> n, c |-> c1, did |-> FALSE]
                ELSE [n |-> IF n.type = "AST_FCALL"
                            THEN [n EXCEPT !.type = "AST_IDENTIFIER", !.children = <<>>,
                                           !.str = PrefixedWireName(prefix, n.str)]
                            ELSE [n EXCEPT !.str = <<>>],
                      c |-> c1, did |-> TRUE])

\* the arguments with the bits a constant of mkconst_int stands for
WithBits(call) ==
    [call EXCEPT !.children = [i \in DOMAIN call.children |->
                                  [call.children[i] EXCEPT !.bits = BitsOfConst(call.children[i])]]]

IsFunctionCall(n) == n.type \in {"AST_FCALL", "AST_TCALL"} /\ n.str # <<>>

FunctionCall(n, c, f) ==
    LET stop(msg) == [n |-> n, c |-> Fail(c, msg), did |-> FALSE]
        resolved(type) == n.str \in DOMAIN c.scope /\ Lookup(c, c.scope[n.str]).type = type
    IN  IF n.type = "AST_FCALL" /\ ~resolved("AST_FUNCTION")
        THEN stop("Can't resolve function name")
        ELSE IF n.type = "AST_TCALL" /\ ~resolved("AST_TASK")
        THEN stop("Can't resolve task name")
        ELSE
    Let(IF f.in_param THEN [ret |-> FALSE, recommend |-> FALSE]
        ELSE has_const_only_constructs(n, c, FALSE), LAMBDA h :
        IF ~ConstEval(f.in_param, h.recommend, h.ret) THEN InlineCall(n, c, f)
        ELSE Let(SimplifyArgs(n, 1, c, f), LAMBDA a :
                 IF a.c.err # "" THEN [n |-> a.n, c |-> a.c, did |-> FALSE]
                 ELSE IF \A i \in DOMAIN a.n.children : a.n.children[i].type = "AST_CONSTANT"
                 THEN Let(eval_const_function(Lookup(a.c, a.c.scope[n.str]), WithBits(a.n)), LAMBDA r :
                          IF r.err # "" THEN [n |-> a.n, c |-> Fail(a.c, r.err), did |-> FALSE]
                          ELSE [n |-> r.n, c |-> a.c, did |-> TRUE])
                 ELSE IF f.in_param
                 THEN [n |-> a.n,
                       c |-> Fail(a.c, "Non-constant function call in constant expression"),
                       did |-> FALSE]
                 ELSE IF h.ret
                 THEN [n |-> a.n,
                       c |-> Fail(a.c, "Function can only be called with constant arguments"),
                       did |-> FALSE]
                 ELSE InlineCall(a.n, a.c, f)))

\* the rewrites of one node after its children, lines 461-1714
Rewrite(n, c, f, did) ==
    LET plus(r) == [n |-> r.n, c |-> r.c, did |-> did \/ r.did]
        same == [n |-> n, c |-> c, did |-> did]
    IN  CASE n.type = "AST_DEFPARAM" /\ n.str # <<>> -> Defparam(n, c, did)
          [] n.type = "AST_PREFIX" -> plus(Prefix(n, c))
          [] n.type = "AST_RANGE" ->
                 LET a == AnnotateRange(n, did) IN [n |-> a.n, c |-> c, did |-> a.did]
          [] n.type = "AST_WIRE" ->
                 LET a == AnnotateWire(n, did) IN [n |-> a.n, c |-> c, did |-> a.did]
          [] n.type = "AST_IDENTIFIER" ->
                 LET r == ResolveIdentifier(n, c, did)
                     k == ConstFold(r.n, r.c, f)
                 IN  IF IsMemRd(r.n, r.c, f)
                     THEN [n |-> MemRd(r.n), c |-> r.c, did |-> TRUE]
                     ELSE [n |-> k.n, c |-> r.c, did |-> r.did \/ k.did]
          [] n.type \in {"AST_WHILE", "AST_REPEAT"} ->
                 [n |-> n, c |-> Fail(c, "loops are only allowed in constant functions"),
                  did |-> did]
          [] n.type \in {"AST_GENFOR", "AST_FOR"} /\ Len(n.children) # 0 ->
                 plus(Genfor(n, c, f))
          [] n.type = "AST_GENBLOCK" /\ Len(n.children) # 0 -> plus(Genblock(n, c, f))
          [] n.type = "AST_GENIF" /\ Len(n.children) # 0 -> plus(Genif(n, c, f))
          [] n.type = "AST_GENCASE" /\ Len(n.children) # 0 -> plus(Gencase(n, c, f))
          [] n.type = "AST_CELLARRAY" -> plus(CellArray(n, c))
          [] n.type = "AST_PRIMITIVE" -> Primitive(n, c, did)
          [] IsDynamicRange(n, c, did) -> DynamicRange(n, c, f)
          [] IsAssertInBlock(n, f) -> AssertInBlock(n, c)
          [] IsAssertPlain(n, f) -> AssertPlain(n, c)
          [] IsFunctionCall(n) -> FunctionCall(n, c, f)
          [] IsRangedParameter(n) -> TrimParameter(n, c, did)
          [] IsMemWr(n, c, f) -> MemWr(n, c)
          [] n.type \in {"AST_LT", "AST_ADD", "AST_NEG"} ->
                 LET k == ConstFold(n, c, f) IN [n |-> k.n, c |-> c, did |-> did \/ k.did]
          [] OTHER -> same

Simp(n, c, f0) ==
    IF c.err # "" \/ n.type \in {"AST_FUNCTION", "AST_TASK"}
    THEN [n |-> n, c |-> c, did |-> FALSE]
    ELSE Let(ChildLoop(n, 1, c, Activate(n, c, f0), FALSE), LAMBDA k :
             IF k.c.err # "" THEN k ELSE Rewrite(k.n, k.c, Activate(n, c, f0), k.did))

(***************************************************************************)
(* simplify on the module root for stage >= 1: the scope of lines 173-231, *)
(* the declarations of lines 232-237, the children of lines 383-431.       *)
(***************************************************************************)
RECURSIVE DeclLoop(_, _, _), ModChildLoop(_, _, _, _)
DeclLoop(c, i, did) ==
    IF i > Len(c.mod) \/ c.err # "" THEN [c |-> c, did |-> did]
    ELSE IF c.mod[i].type \in {"AST_PARAMETER", "AST_LOCALPARAM", "AST_WIRE", "AST_AUTOWIRE"}
    THEN LET f == [Args(1) EXCEPT
                     !.const_fold = TRUE,
                     !.in_param = c.mod[i].type \in {"AST_PARAMETER", "AST_LOCALPARAM"}]
         IN  Let(SimpFix(c.mod[i], c, f), LAMBDA r :
                 DeclLoop([r.c EXCEPT !.mod[i] = r.n], i + 1, did \/ r.any))
    ELSE DeclLoop(c, i + 1, did)

ModChildLoop(c, i, f, did) ==
    IF i > Len(c.mod) \/ c.err # "" THEN [c |-> c, did |-> did]
    ELSE Let(Simp(c.mod[i], c, f), LAMBDA r :
             ModChildLoop([r.c EXCEPT !.mod[i] = r.n], IF r.did THEN i ELSE i + 1, f,
                          did \/ r.did))

SimplifyModule(ch, stage, cfold, ai, nu) ==
    Let(ModuleScopeLoop(ch, 1, NoScope, NoScope, FALSE, stage), LAMBDA e :
    Let(DeclLoop([Ctx(e.ch, ai, nu) EXCEPT !.scope = e.scope, !.err = e.err], 1, e.did),
        LAMBDA d :
    Let(ModChildLoop(d.c, 1, [Args(stage) EXCEPT !.const_fold = cfold], d.did), LAMBDA m :
        [ch |-> m.c.mod, did |-> m.did, autoidx |-> m.c.autoidx,
         nextuid |-> m.c.nextuid, err |-> m.c.err])))

(***************************************************************************)
(* mem2reg_as_needed_pass1, lines 1786-1901.  cand is mem2reg_candidates   *)
(* and proc is proc_flags (memory uid -> set of flags), flags the context  *)
(* flags; ch is the child list of the module (what id2ast points into).    *)
(***************************************************************************)
\* TRUE; evaluates v where it stands, so that a loop hands on values, not
\* unevaluated expressions that grow with every iteration
Evaluated(v) == v = v

FlagsOf(m, u) == IF u \in DOMAIN m THEN m[u] ELSE {}
SetFlag(m, u, fl) == (u :> (FlagsOf(m, u) \cup {fl})) @@ m
Touch(m, u) == (u :> FlagsOf(m, u)) @@ m

NodeOf(ch, u) == IF IndexOfUid(ch, u) # 0 THEN ch[IndexOfUid(ch, u)]
                 ELSE Node("AST_NONE", <<>>, <<>>)
RefersToMemory(n, ch) ==
    n.type = "AST_IDENTIFIER" /\ n.id2ast # 0 /\ NodeOf(ch, n.id2ast).type = "AST_MEMORY"

RECURSIVE mark_memories_assign_lhs_complex(_, _, _), MarkLoop(_, _, _, _)
mark_memories_assign_lhs_complex(cand, that, ch) ==
    LET inner == MarkLoop(cand, that.children, 1, ch)
    IN  IF RefersToMemory(that, ch) THEN SetFlag(inner, that.id2ast, "CMPLX_LHS") ELSE inner

MarkLoop(cand, list, i, ch) ==
    IF Evaluated(cand) /\ i > Len(list) THEN cand
    ELSE MarkLoop(mark_memories_assign_lhs_complex(cand, list[i], ch), list, i + 1, ch)

\* lines 1808-1845: an assignment
Pass1Assign(n, ch, cand, proc, flags) ==
    LET cand1 == MarkLoop(cand, n.children[1].children, 1, ch)
        mem == n.children[1].id2ast
        cand2 == IF "ASYNC" \in flags THEN SetFlag(cand1, mem, "SET_ASYNC") ELSE cand1
        proc2 == IF n.type = "AST_ASSIGN_EQ" THEN SetFlag(proc, mem, "EQ1") ELSE proc
        cand3 == IF "INIT" \in flags THEN SetFlag(cand2, mem, "SET_INIT")
                 ELSE SetFlag(cand2, mem, "SET_ELSE")
    IN  IF RefersToMemory(n.children[1], ch)
        THEN [cand |-> cand3, proc |-> proc2]
        ELSE [cand |-> cand1, proc |-> proc]

\* lines 1847-1856: flag if used after blocking assignment (in same proc)
Pass1Identifier(n, ch, cand, proc) ==
    IF RefersToMemory(n, ch) /\ "EQ1" \in FlagsOf(proc, n.id2ast)
    THEN IF "EQ2" \notin FlagsOf(cand, n.id2ast)
         THEN SetFlag(cand, n.id2ast, "EQ2") ELSE Touch(cand, n.id2ast)
    ELSE cand

\* lines 1858-1860
Pass1Memory(n, cand, flags) ==
    IF n.type = "AST_MEMORY"
       /\ (get_bool_attribute(n, "\\mem2reg") \/ "ALL" \in flags \/ ~n.is_reg)
    THEN SetFlag(cand, n.uid, "FORCED") ELSE cand

\* lines 1867-1880: the flags a process sets for its children
ProcessFlags(n) ==
    LET count_edge_events ==
            Cardinality({i \in 1..Len(n.children) :
                            n.children[i].type \in {"AST_POSEDGE", "AST_NEGEDGE"}})
    IN  IF n.type = "AST_ALWAYS" THEN (IF count_edge_events # 1 THEN {"ASYNC"} ELSE {})
        ELSE IF n.type = "AST_INITIAL" THEN {"INIT"}
        ELSE {}

\* one map of per-process flags for the whole module
OwnProcFlagsNever(n) == FALSE

\* lines 1865-1880: proc_flags_p, a new and empty map of per-process flags, is
\* made for an always and for an initial block
OwnProcFlags(n) == n.type \in {"AST_ALWAYS", "AST_INITIAL"}

\* context flags that stay set when the node that set them is left
RestoreFlagsNever(flags, children_flags, backup_flags) == flags

\* line 1894: flags &= ~children_flags | backup_flags
RestoreFlags(flags, children_flags, backup_flags) ==
    (flags \ children_flags) \cup (flags \cap backup_flags)

\* flags is passed by reference (uint32_t &flags): the flags a node leaves
\* behind are the flags its next sibling is visited with
RECURSIVE mem2reg_as_needed_pass1(_, _, _, _, _), Pass1Children(_, _, _, _, _, _)
mem2reg_as_needed_pass1(n, ch, cand, proc, flags) ==
    LET is_assign == n.type \in {"AST_ASSIGN", "AST_ASSIGN_LE", "AST_ASSIGN_EQ"}
        a == IF is_assign THEN Pass1Assign(n, ch, cand, proc, flags)
             ELSE [cand |-> cand, proc |-> proc]
        cand2 == Pass1Memory(n, IF n.type = "AST_IDENTIFIER"
                                THEN Pass1Identifier(n, ch, a.cand, a.proc) ELSE a.cand,
                             flags)
        own_proc == OwnProcFlags(n)
        children_flags == ProcessFlags(n)
        k == Pass1Children(n.children, IF is_assign THEN 2 ELSE 1, ch, cand2,
                           IF own_proc THEN NoScope ELSE a.proc,
                           flags \cup children_flags)
    IN  [cand |-> k.cand, proc |-> IF own_proc THEN a.proc ELSE k.proc,
         flags |-> RestoreFlags(k.flags, children_flags, flags)]

Pass1Children(list, i, ch, cand, proc, flags) ==
    IF Evaluated(cand) /\ Evaluated(proc) /\ Evaluated(flags) /\ i > Len(list)
    THEN [cand |-> cand, proc |-> proc, flags |-> flags]
    ELSE LET r == mem2reg_as_needed_pass1(list[i], ch, cand, proc, flags)
         IN  Pass1Children(list, i + 1, ch, r.cand, r.proc, r.flags)

\* the call of line 69 on the module root
Pass1Module(ch, attrs, fl_mem2reg) ==
    LET flags == (IF fl_mem2reg THEN {"ALL"} ELSE {})
                 \cup (IF attrs["\\mem2reg"] # NoAttr /\ attrs["\\mem2reg"] # 0 THEN {"ALL"} ELSE {})
    IN  Pass1Children(ch, 1, ch, NoScope, NoScope, flags).cand

\* a decision that does not look at the nomem2reg attribute of the memory
Mem2regDecisionNoVeto(mem, memflags) ==
    \/ "FORCED" \in memflags \/ "EQ2" \in memflags \/ "SET_ASYNC" \in memflags
    \/ ("SET_INIT" \in memflags /\ "SET_ELSE" \in memflags) \/ "CMPLX_LHS" \in memflags

\* lines 78-97: the decision for one candidate
Mem2regDecision(mem, memflags) ==
    IF get_bool_attribute(mem, "\\nomem2reg") THEN FALSE
    ELSE IF "FORCED" \in memflags THEN TRUE
    ELSE IF "EQ2" \in memflags THEN TRUE
    ELSE IF "SET_ASYNC" \in memflags THEN TRUE
    ELSE IF "SET_INIT" \in memflags /\ "SET_ELSE" \in memflags THEN TRUE
    ELSE IF "CMPLX_LHS" \in memflags THEN TRUE
    ELSE FALSE

(***************************************************************************)
(* Register synthesis, lines 115-129: one wire "<mem>[i]" per word of each *)
(* demoted memory (set is mem2reg_set, visited in pointer order).          *)
(***************************************************************************)
RECURSIVE SynthWords(_, _, _), SynthRegisters(_, _)
SynthWords(c, mem, i) ==
    IF Evaluated(c) /\ i >= mem_size(mem) THEN c
    ELSE LET reg == [Node("AST_WIRE", Indexed(mem.str, i),
                          <<ConstRange(mem_width(mem) - 1, 0)>>) EXCEPT
                        !.uid = c.nextuid, !.is_reg = TRUE, !.is_signed = mem.is_signed]
         IN  Let(SimpFix(reg, [c EXCEPT !.nextuid = @ + 1, !.mod = Append(@, reg)],
                         [Args(1) EXCEPT !.const_fold = TRUE]), LAMBDA s :
                 SynthWords([s.c EXCEPT !.mod[Len(c.mod) + 1] = s.n], mem, i + 1))

SynthRegisters(c, set) ==
    IF set = {} THEN c
    ELSE LET u == CHOOSE x \in set : \A y \in set : x <= y
         IN  SynthRegisters(SynthWords(c, NodeOf(c.mod, u), 0), set \ {u})

(***************************************************************************)
(* mem2reg_as_needed_pass2, lines 1904-2056.  The insertions into the      *)
(* enclosing block are returned as pre (before the statement that contains *)
(* the node) and post (after it); the block that splices them in never     *)
(* visits them, as the code walks a copy of the child list (line 2053).    *)
(***************************************************************************)
Cond(match, stmt) ==
    Node("AST_COND", <<>>, <<match, Node("AST_BLOCK", <<>>, <<stmt>>)>>)

\* lines 1909-1962: write to a demoted memory at a non-constant address
IsPass2Write(n, set, has_block) ==
    /\ n.type \in {"AST_ASSIGN_LE", "AST_ASSIGN_EQ"}
    /\ has_block
    /\ n.children[1].id2ast # 0
    /\ n.children[1].id2ast \in set
    /\ n.children[1].children[1].children[1].type # "AST_CONSTANT"

\* arms that assign the registers with a blocking assignment
WriteArmTypeBlocking(type) == "AST_ASSIGN_EQ"

\* line 1947: new AstNode(type, ..), read before line 1961 sets type
WriteArmType(type) == type

Pass2Write(n, c) ==
    LET lhs == n.children[1]
        mem == NodeOf(c.mod, lhs.id2ast)
        sstr == "$mem2reg_wr$" \o Flat(lhs.str) \o "$" \o ToString(c.autoidx)
        id_addr == <<sstr \o "_ADDR">>
        id_data == <<sstr \o "_DATA">>
        c1 == NewWire([c EXCEPT !.autoidx = @ + 1], id_addr, addr_bits(mem) - 1, 0, TRUE, TRUE)
        c2 == NewWire(c1, id_data, mem_width(mem) - 1, 0, TRUE, TRUE)
        assign_addr == Node("AST_ASSIGN_EQ", <<>>,
                            <<Ident(id_addr), lhs.children[1].children[1]>>)
        case_node == Node("AST_CASE", <<>>,
            <<Ident(id_addr)>> \o
            [i \in 1..mem_size(mem) |->
                Cond(mkconst_int(i - 1),
                     Node(WriteArmType(n.type), <<>>,
                          <<Ident(Indexed(lhs.str, i - 1)), Ident(id_data)>>))])
    IN  [n |-> [n EXCEPT !.type = "AST_ASSIGN_EQ",
                         !.children[1] = [lhs EXCEPT !.children = <<>>, !.range_valid = FALSE,
                                                     !.id2ast = 0, !.str = id_data]],
         c |-> c2, pre |-> <<>>, post |-> <<assign_addr, case_node>>]

\* lines 1964-2049: an identifier that refers to a demoted memory
IsPass2Ident(n, set) == n.type = "AST_IDENTIFIER" /\ n.id2ast # 0 /\ n.id2ast \in set

\* the case statement in front of the assignment of its address
ReadInsertionCaseFirst(assign_addr, case_node) == <<case_node, assign_addr>>

\* lines 2033-2041: both nodes are inserted at assign_idx, the case first, so
\* that the assignment of the address ends up in front of the case
ReadInsertion(assign_addr, case_node) == <<assign_addr, case_node>>

Pass2Ident(n, c, has_block) ==
    LET index == n.children[1].children[1]
        mem == NodeOf(c.mod, n.id2ast)
        x_bits == [i \in 1..mem_width(mem) |-> "x"]
        sstr == "$mem2reg_rd$" \o Flat(n.children[1].str) \o "$" \o ToString(c.autoidx)
        id_addr == <<sstr \o "_ADDR">>
        id_data == <<sstr \o "_DATA">>
        assign_addr == Node(IF has_block THEN "AST_ASSIGN_EQ" ELSE "AST_ASSIGN", <<>>,
                            <<Ident(id_addr), index>>)
        case_node == Node("AST_CASE", <<>>,
            <<Ident(id_addr)>> \o
            [i \in 1..mem_size(mem) |->
                Cond(mkconst_int(i - 1),
                     Node("AST_ASSIGN_EQ", <<>>, <<Ident(id_data), Ident(Indexed(n.str, i - 1))>>))]
            \o <<Cond(Node("AST_DEFAULT", <<>>, <<>>),
                      Node("AST_ASSIGN_EQ", <<>>,
                           <<Ident(id_data), mkconst_bits(x_bits, FALSE)>>))>>)
        proc == Node("AST_ALWAYS", <<>>, <<Node("AST_BLOCK", <<>>, <<case_node>>)>>)
        cleared == [n EXCEPT !.children = <<>>, !.range_valid = FALSE, !.id2ast = 0]
    IN  IF index.type = "AST_CONSTANT"
        THEN [n |-> [cleared EXCEPT !.str = Indexed(n.str, index.integer)],
              c |-> c, pre |-> <<>>, post |-> <<>>]
        ELSE Let(NewWire(NewWire([c EXCEPT !.autoidx = @ + 1],
                                 id_addr, addr_bits(mem) - 1, 0, TRUE, has_block),
                         id_data, mem_width(mem) - 1, 0, TRUE, has_block), LAMBDA c2 :
                 IF has_block
                 THEN [n |-> [cleared EXCEPT !.str = id_data], c |-> c2,
                       pre |-> ReadInsertion(assign_addr, case_node), post |-> <<>>]
                 ELSE [n |-> [cleared EXCEPT !.str = id_data],
                       c |-> PushBack(PushBack(c2, proc), assign_addr),
                       pre |-> <<>>, post |-> <<>>])

RECURSIVE mem2reg_as_needed_pass2(_, _, _, _), Pass2Children(_, _, _, _, _, _, _, _)
mem2reg_as_needed_pass2(n, c, set, block) ==
    LET has_block == block \/ n.type = "AST_BLOCK"
    IN  \* lines 1909-1962
        Let(IF IsPass2Write(n, set, has_block) THEN Pass2Write(n, c)
            ELSE [n |-> n, c |-> c, pre |-> <<>>, post |-> <<>>], LAMBDA w :
        \* lines 1964-2049
        Let(IF IsPass2Ident(w.n, set) THEN Pass2Ident(w.n, w.c, has_block) ELSE w, LAMBDA r :
        \* lines 2051-2055
        Let(Pass2Children(r.n.children, 1, r.c, set, has_block, <<>>, <<>>, <<>>), LAMBDA k :
        IF n.type = "AST_BLOCK"
        THEN [n |-> [r.n EXCEPT !.children = k.spliced], c |-> k.c,
              pre |-> <<>>, post |-> <<>>]
        ELSE [n |-> [r.n EXCEPT !.children = k.list], c |-> k.c,
              pre |-> r.pre \o k.pre, post |-> w.post \o k.post])))

\* line 2053-2055: children_list = children; visit each of children_list
Pass2Children(list, i, c, set, block, out, pre, post) ==
    IF Evaluated(<<list, c, out, pre, post>>) /\ i > Len(list)
    THEN [list |-> list, spliced |-> out, c |-> c, pre |-> pre, post |-> post]
    ELSE Let(mem2reg_as_needed_pass2(list[i], c, set, block), LAMBDA r :
             Pass2Children([list EXCEPT ![i] = r.n], i + 1, r.c, set, block,
                           out \o r.pre \o <<r.n>> \o r.post,
                           pre \o r.pre, post \o r.post))

\* line 131: the call on the module root (block = NULL)
RECURSIVE Pass2ModuleLoop(_, _, _, _)
Pass2ModuleLoop(c, i, n, set) ==
    IF Evaluated(c) /\ i > n THEN c
    ELSE Let(mem2reg_as_needed_pass2(c.mod[i], c, set, FALSE), LAMBDA r :
             Pass2ModuleLoop([r.c EXCEPT !.mod[i] = r.n], i + 1, n, set))

Pass2Module(c, set) == Pass2ModuleLoop(c, 1, Len(c.mod), set)

\* lines 133-138: the demoted memories leave the module
DeleteDemoted(ch, set) == SelectSeq(ch, LAMBDA n : ~(n.uid # 0 /\ n.uid \in set))

(***************************************************************************)
(* The modules the parser hands over.                                      *)
(***************************************************************************)
Wire(name, rng, in, out, reg, sgn, port) ==
    [Node("AST_WIRE", name, IF rng = <<>> THEN <<>> ELSE <<ConstRange(rng[1], rng[2])>>)
        EXCEPT !.is_input = in, !.is_output = out, !.is_reg = reg, !.is_signed = sgn,
               !.port_id = port]

PlainWire(name) == Wire(name, <<>>, FALSE, FALSE, FALSE, FALSE, 0)
WithAttr(n, a, v) == [n EXCEPT !.attributes[a] = v]
At(name, index) ==
    [Ident(name) EXCEPT !.children = <<Node("AST_RANGE", <<>>, <<index>>)>>]
Stmt(t, lhs, rhs) == Node(t, <<>>, <<lhs, rhs>>)

\* every declaration that is a child of the module root is an object of its own
RECURSIVE WithUidsFrom(_, _)
WithUidsFrom(ch, i) ==
    IF i > Len(ch) THEN <<>>
    ELSE <<IF IsDecl(ch[i]) THEN [ch[i] EXCEPT !.uid = i] ELSE ch[i]>> \o WithUidsFrom(ch, i + 1)

WithUids(ch) == WithUidsFrom(ch, 1)

\* duplicate declarations of one wire
WireModules ==
    { <<w1, w2>> \o rest :
        w1 \in { WithAttr(Wire(<<"w">>, r, FALSE, FALSE, reg, FALSE, port), "\\keep", k) :
                   r \in {<<>>, <<3, 0>>}, reg \in BOOLEAN, port \in {0, 1}, k \in {NoAttr, 1} },
        w2 \in { WithAttr(Wire(<<"w">>, r, io = "in", io = "out", reg, sgn, 0), "\\keep", k) :
                   r \in {<<>>, <<3, 0>>, <<0, 3>>, <<1, 0>>}, io \in {"", "in", "out"},
                   reg \in BOOLEAN, sgn \in BOOLEAN, k \in {NoAttr, 0} },
        rest \in { <<>>,
                   <<WithAttr(Wire(<<"w">>, <<>>, FALSE, FALSE, TRUE, FALSE, 0), "\\keep", 1)>>,
                   <<Node("AST_ASSIGN", <<>>, <<Ident(<<"w">>), Ident(<<"y">>)>>)>> } }

\* a memory of `size` words and the processes that use it
Memory(size, reg) ==
    [Node("AST_MEMORY", <<"mem">>, <<ConstRange(1, 0), ConstRange(0, size - 1)>>)
        EXCEPT !.is_reg = reg]

MemKinds(size) ==
    { Memory(size, TRUE), Memory(size, FALSE),
      WithAttr(Memory(size, TRUE), "\\mem2reg", 1),
      WithAttr(Memory(size, TRUE), "\\nomem2reg", 1) }

MemJ == At(<<"mem">>, Ident(<<"j">>))
WrVarLE == Stmt("AST_ASSIGN_LE", MemJ, Ident(<<"d">>))
WrVarEQ == Stmt("AST_ASSIGN_EQ", MemJ, Ident(<<"d">>))
WrConst == Stmt("AST_ASSIGN_LE", At(<<"mem">>, mkconst_int(0)), Ident(<<"d">>))
RdVar == Stmt("AST_ASSIGN_LE", Ident(<<"x">>), MemJ)
RdConst == Stmt("AST_ASSIGN_LE", Ident(<<"x">>), At(<<"mem">>, mkconst_int(0)))
RdNested == Stmt("AST_ASSIGN_LE", Ident(<<"x">>), At(<<"mem">>, MemJ))
WrNested == Stmt("AST_ASSIGN_LE", At(<<"mem">>, MemJ), Ident(<<"d">>))

Bodies ==
    { <<WrVarLE>>, <<WrVarEQ>>, <<WrConst>>, <<RdVar>>, <<RdConst>>, <<RdNested>>,
      <<WrNested>>, <<WrVarEQ, RdVar>>, <<RdVar, WrVarEQ>>, <<WrVarLE, RdVar>> }

Always(edge, body) ==
    Node("AST_ALWAYS", <<>>,
         (IF edge THEN <<Node("AST_POSEDGE", <<>>, <<Ident(<<"clk">>)>>)>> ELSE <<>>)
         \o <<Node("AST_BLOCK", <<>>, body)>>)
Initial(body) == Node("AST_INITIAL", <<>>, <<Node("AST_BLOCK", <<>>, body)>>)

MemDecls(mem) ==
    <<Wire(<<"clk">>, <<>>, TRUE, FALSE, FALSE, FALSE, 1),
      Wire(<<"j">>, <<>>, TRUE, FALSE, FALSE, FALSE, 2),
      Wire(<<"d">>, <<1, 0>>, TRUE, FALSE, FALSE, FALSE, 3),
      Wire(<<"x">>, <<1, 0>>, FALSE, TRUE, TRUE, FALSE, 4),
      mem>>

MemModules ==
    { MemDecls(mem) \o init \o <<Always(edge, body)>> :
        mem \in UNION { MemKinds(size) : size \in 1..MaxMemSize },
        init \in { <<>>, <<Initial(<<WrConst>>)>> },
        edge \in BOOLEAN, body \in Bodies }
    \cup
    { MemDecls(mem) \o <<Node("AST_ASSIGN", <<>>, <<Ident(<<"x">>), rd>>)>> :
        mem \in MemKinds(MaxMemSize), rd \in {MemJ, At(<<"mem">>, MemJ)} }

\* generate constructs, cells, primitives, defparams and hierarchical names
MaxParam == 2       \* the localparam P that steers the generate constructs is 0 .. MaxParam

GenDecls(p) ==
    <<Node("AST_GENVAR", <<"i">>, <<>>),
      Node("AST_LOCALPARAM", <<"P">>, <<mkconst_int(p)>>),
      Wire(<<"a">>, <<>>, TRUE, FALSE, FALSE, FALSE, 1),
      Wire(<<"y">>, <<>>, FALSE, TRUE, FALSE, FALSE, 2)>>

Assign(l, r) == Node("AST_ASSIGN", <<>>, <<Ident(l), Ident(r)>>)
GenBlock(name, ch) == Node("AST_GENBLOCK", name, ch)
Body(name) == GenBlock(name, <<PlainWire(<<"t">>), Assign(<<"t">>, <<"a">>)>>)

GenFor(name) ==
    Node("AST_GENFOR", <<>>,
         <<Stmt("AST_ASSIGN_EQ", Ident(<<"i">>), mkconst_int(0)),
           Node("AST_LT", <<>>, <<Ident(<<"i">>), Ident(<<"P">>)>>),
           Stmt("AST_ASSIGN_EQ", Ident(<<"i">>),
                Node("AST_ADD", <<>>, <<Ident(<<"i">>), mkconst_int(1)>>)),
           Body(name)>>)

GenIf(cond, else) ==
    Node("AST_GENIF", <<>>, <<Ident(cond), GenBlock(<<>>, <<Assign(<<"y">>, <<"a">>)>>)>> \o else)

GenCase(default) ==
    Node("AST_GENCASE", <<>>,
         <<Ident(<<"P">>),
           Node("AST_COND", <<>>, <<mkconst_int(0), Body(<<"zero">>)>>),
           Node("AST_COND", <<>>, <<mkconst_int(1), GenBlock(<<>>, <<Assign(<<"y">>, <<"a">>)>>)>>)>>
         \o default)

Argument(name) == Node("AST_ARGUMENT", <<>>, <<Ident(name)>>)
Cell(name) ==
    Node("AST_CELL", name, <<Node("AST_CELLTYPE", <<"sub">>, <<>>), Argument(<<"a">>)>>)
Primitive_(name, args) == Node("AST_PRIMITIVE", <<name>>, [k \in 1..Len(args) |-> Argument(args[k])])
PrefixOf(index) == Node("AST_PREFIX", <<"blk">>, <<index, Ident(<<"t">>)>>)

Function ==
    Node("AST_FUNCTION", <<"f">>,
         <<PlainWire(<<"f">>), Wire(<<"n">>, <<>>, TRUE, FALSE, FALSE, FALSE, 1),
           Node("AST_BLOCK", <<>>,
                <<Stmt("AST_ASSIGN_EQ", Ident(<<"f">>), PrefixOf(mkconst_int(0)))>>)>>)

GenItems ==
    { <<GenFor(name)>> : name \in {<<>>, <<"blk">>} }
    \cup { <<GenFor(<<"blk">>), Node("AST_ASSIGN", <<>>, <<Ident(<<"y">>), PrefixOf(ix)>>)>> :
             ix \in {mkconst_int(0), Ident(<<"P">>), Ident(<<"a">>)} }
    \cup { <<GenIf(cond, else)>> : cond \in {<<"P">>, <<"a">>},
                                  else \in {<<>>, <<Body(<<"e">>)>>} }
    \cup { <<GenCase(d)>> :
             d \in {<<>>, <<Node("AST_COND", <<>>, <<Node("AST_DEFAULT", <<>>, <<>>), Body(<<>>)>>)>>} }
    \cup { <<Body(name)>> : name \in {<<>>, <<"g">>} }
    \cup { <<GenBlock(<<"g">>, <<GenIf(<<"P">>, <<Body(<<"e">>)>>)>>)>> }
    \cup { <<Node("AST_CELLARRAY", <<>>, <<r, Cell(<<"u">>)>>)>> :
             r \in {ConstRange(1, 0), ConstRange(0, 1), Node("AST_RANGE", <<>>, <<Ident(<<"a">>)>>)} }
    \cup { <<Node("AST_CELLARRAY", <<>>, <<ConstRange(1, 0), Primitive_("and", <<<<"y">>, <<"a">>>>)>>)>> }
    \cup { <<Primitive_(name, <<<<"y">>, <<"a">>, <<"a">>>>)>> :
             name \in {"and", "nor", "xnor", "bufif0", "notif1"} }
    \cup { <<Primitive_(name, args)>> :
             name \in {"not", "buf"}, args \in {<<<<"y">>, <<"a">>>>, <<<<"y">>>>} }
    \cup { <<Cell(<<"u">>), Node("AST_DEFPARAM", str, <<mkconst_int(4)>>)>> :
             str \in {<<"u", "WIDTH">>, <<"v", "WIDTH">>, <<"WIDTH">>} }
    \cup { <<Always(TRUE, <<Node("AST_WHILE", <<>>,
                                 <<Ident(<<"a">>), Node("AST_BLOCK", <<>>, <<>>)>>)>>)>> }

GenModules ==
    { GenDecls(p) \o fn \o items :
        p \in 0..MaxParam, fn \in {<<>>, <<Function>>}, items \in GenItems }

(***************************************************************************)
(* The constant-function interpreter, eval_const_function, lines 2121-2335.*)
(* A constant carries its bits, least significant first, each one of       *)
(* RTLIL::State S0, S1, Sx.                                                *)
(***************************************************************************)
MaxArgBits == 2     \* an argument of the call is a constant of 1 .. MaxArgBits bits
MaxEvals == 2       \* evaluations of the function, each on a clone of its own
MaxSteps == 12      \* cap on the iterations of the interpreter loop, line 2163

State == {"0", "1", "x"}

Max(a, b) == IF a > b THEN a ELSE b

\* RTLIL::Const::as_int as called on lines 498, 2256: the bits that are S1
RECURSIVE as_int(_)
as_int(v) ==
    IF v = <<>> THEN 0 ELSE (IF v[1] = "1" THEN 1 ELSE 0) + 2 * as_int(Tail(v))

\* AstNode::mkconst_bits as called on lines 2110, 2334: the node keeps the bits
\* and the sign, its integer is the sign-extended value of the bits
mkconst_bits(v, is_signed) ==
    [Node("AST_CONSTANT", <<>>, <<>>) EXCEPT
        !.bits = v, !.is_signed = is_signed,
        !.integer = IF is_signed /\ v # <<>> /\ v[Len(v)] = "1"
                    THEN as_int(v) - 2^Len(v) ELSE as_int(v)]

\* AstNode::bitsAsConst(width, is_signed) as called on lines 2148, 2195, 2204,
\* 1561: cut to width, or extended with the top bit when signed, with S0 otherwise
bitsAsConst(n, width, is_signed) ==
    IF width < Len(n.bits) THEN SubSeq(n.bits, 1, width)
    ELSE n.bits \o [i \in 1..(width - Len(n.bits)) |->
                       IF is_signed /\ n.bits # <<>> THEN n.bits[Len(n.bits)] ELSE "0"]

\* AstNode::asBool as called on lines 2234, 2293: some bit is S1
asBool(n) == \E i \in DOMAIN n.bits : n.bits[i] = "1"

\* RTLIL::const_eq as called on line 1561: S0 when a pair of defined bits
\* differs, else Sx when some bit is undefined, else S1
const_eq(arg1, arg2) ==
    IF \E i \in DOMAIN arg1 : {arg1[i], arg2[i]} = {"0", "1"} THEN <<"0">>
    ELSE IF \E i \in DOMAIN arg1 : arg1[i] = "x" \/ arg2[i] = "x" THEN <<"x">>
    ELSE <<"1">>

\* AST_EQ of two constants, lines 1552-1563
FoldEq(a, b) ==
    LET cmp_width == Max(Len(a.bits), Len(b.bits))
        cmp_signed == a.is_signed /\ b.is_signed
    IN  mkconst_bits(const_eq(bitsAsConst(a, cmp_width, cmp_signed),
                              bitsAsConst(b, cmp_width, cmp_signed)), FALSE)

\* helper function for eval_const_function, lines 2091-2118: [n, err]
RECURSIVE replace_variables(_, _), ReplaceInChildren(_, _, _)
replace_variables(n, vs) ==
    IF n.type = "AST_IDENTIFIER" /\ n.str \in DOMAIN vs
    THEN IF n.children = <<>>
         THEN [n |-> mkconst_bits(vs[n.str].val, vs[n.str].is_signed), err |-> ""]
         ELSE IF Len(n.children) # 1 \/ n.children[1].type # "AST_RANGE"
         THEN [n |-> n, err |-> "Memory access in constant function is not supported"]
         ELSE Let(replace_variables(n.children[1], vs), LAMBDA r :
              Let(AnnotateRange(r.n, FALSE).n, LAMBDA range :
              IF r.err # "" THEN [n |-> n, err |-> r.err]
              ELSE IF ~range.range_valid THEN [n |-> n, err |-> "Non-constant range"]
              ELSE LET offset == Min(range.range_left, range.range_right) - vs[n.str].offset
                       width == Min(Abs(range.range_left - range.range_right) + 1,
                                    Len(vs[n.str].val))
                   IN  IF offset < 0 \/ offset + width > Len(vs[n.str].val)
                       THEN [n |-> n, err |-> "select outside of the variable"]
                       ELSE [n |-> mkconst_bits(SubSeq(vs[n.str].val, offset + 1, offset + width),
                                                vs[n.str].is_signed),
                             err |-> ""]))
    ELSE ReplaceInChildren(n, 1, vs)

ReplaceInChildren(n, i, vs) ==
    IF i > Len(n.children) THEN [n |-> n, err |-> ""]
    ELSE Let(replace_variables(n.children[i], vs), LAMBDA r :
             IF r.err # "" THEN [n |-> n, err |-> r.err]
             ELSE ReplaceInChildren([n EXCEPT !.children[i] = r.n], i + 1, vs))

\* what simplify(true, false, false, 1, -1, false, true) makes of an expression
\* whose variables are replaced, lines 2177, 2228, 2249, 2268, 2287
FoldExpr(n) ==
    IF n.type = "AST_EQ" /\ n.children[1].type = "AST_CONSTANT"
                         /\ n.children[2].type = "AST_CONSTANT"
    THEN FoldEq(n.children[1], n.children[2])
    ELSE n

\* the left side of an assignment after line 2177: its range is annotated
FoldLhs(n) ==
    IF n.children # <<>> /\ n.children[1].type = "AST_RANGE"
    THEN [n EXCEPT !.children[1] = AnnotateRange(n.children[1], FALSE).n]
    ELSE n

\* the object a workspace's wire is, and what a name is bound to when the
\* scope has no entry for it
WireOf(eval, name) == "clone" \o ToString(eval) \o ":" \o Flat(name)
Unbound == ""

\* the loop over the children of the function, lines 2129-2158
RECURSIVE EvalChildren(_, _, _, _)
EvalChildren(ws, i, call, e) ==
    IF i > Len(ws.children) \/ e.err # "" THEN e
    ELSE LET child == ws.children[i] IN
         IF child.type = "AST_BLOCK"
         THEN EvalChildren(ws, i + 1, call,
                  IF e.has_block THEN [e EXCEPT !.err = "Assert `block == NULL' failed"]
                  ELSE [e EXCEPT !.block = child.children, !.has_block = TRUE])
         ELSE IF child.type = "AST_WIRE"
         THEN LET wire == AnnotateWire(
                              IF child.children = <<>> THEN child
                              ELSE [child EXCEPT !.children[1] =
                                       AnnotateRange(child.children[1], FALSE).n], FALSE).n
                  size == Abs(wire.range_left - wire.range_right) + 1
                  is_arg == wire.is_input /\ e.argidx < Len(call.children)
              IN  IF ~wire.range_valid
                  THEN [e EXCEPT !.err = "Can't determine size of variable"]
                  ELSE EvalChildren(ws, i + 1, call,
                         [e EXCEPT
                            !.variables = (wire.str :>
                               [val |-> IF is_arg
                                        THEN bitsAsConst(call.children[e.argidx + 1], size,
                                                         call.children[e.argidx + 1].is_signed)
                                        ELSE [k \in 1..size |-> "x"],
                                offset |-> Min(wire.range_left, wire.range_right),
                                is_signed |-> wire.is_signed]) @@ @,
                            !.argidx = IF is_arg THEN @ + 1 ELSE @,
                            !.backup = (wire.str :> IF wire.str \in DOMAIN e.scope
                                                   THEN e.scope[wire.str] ELSE Unbound) @@ @,
                            !.scope = (wire.str :> WireOf(e.eval, wire.str)) @@ @])
         ELSE EvalChildren(ws, i + 1, call,
                  IF e.has_block THEN [e EXCEPT !.err = "Assert `block == NULL' failed"]
                  ELSE [e EXCEPT !.block = <<child>>, !.has_block = TRUE])

\* a restore that assigns every backup and erases no name
RestoreScopeAssign(scope, backup) ==
    [name \in DOMAIN scope \cup DOMAIN backup |->
        IF name \in DOMAIN backup THEN backup[name] ELSE scope[name]]

\* lines 2328-2332
RestoreScope(scope, backup) ==
    [name \in { m \in DOMAIN scope \cup DOMAIN backup :
                   IF m \in DOMAIN backup THEN backup[m] # Unbound ELSE TRUE } |->
        IF name \in DOMAIN backup THEN backup[name] ELSE scope[name]]

\* no function is being evaluated
NoEvaluation ==
    /\ init_decl = Node("AST_NONE", <<>>, <<>>) /\ func_decl = init_decl
    /\ fcall = Node("AST_NONE", <<>>, <<>>)
    /\ func_workspace = Node("AST_NONE", <<>>, <<>>)
    /\ current_scope = NoScope
    /\ block_children = <<>>
    /\ variables = NoScope
    /\ backup_scope = NoScope
    /\ returned = <<>>
    /\ steps = 0
    /\ epc = "idle"

(***************************************************************************)
(* simplify(stage = 0) on a module root, lines 58-143, as a state machine. *)
(***************************************************************************)
ModAttr(a) == [NoAttributes EXCEPT ![a] = 1]

\* flag_nomem2reg, flag_mem2reg and the attributes of the module
FlagChoices ==
    { <<FALSE, FALSE, NoAttributes>>, <<TRUE, FALSE, NoAttributes>>,
      <<FALSE, TRUE, NoAttributes>>, <<FALSE, FALSE, ModAttr("\\nomem2reg")>>,
      <<FALSE, FALSE, ModAttr("\\mem2reg")>> }

Init ==
    /\ \/ /\ init_children \in { WithUids(m) : m \in WireModules }
          /\ flag_nomem2reg = FALSE /\ flag_mem2reg = FALSE
          /\ mod_attributes = NoAttributes
          /\ const_fold = TRUE
       \/ /\ init_children \in { WithUids(m) : m \in MemModules }
          /\ \E fc \in FlagChoices :
                /\ flag_nomem2reg = fc[1] /\ flag_mem2reg = fc[2]
                /\ mod_attributes = fc[3]
          /\ const_fold = TRUE
       \/ /\ init_children \in { WithUids(m) : m \in GenModules }
          /\ flag_nomem2reg = FALSE /\ flag_mem2reg = FALSE
          /\ mod_attributes = NoAttributes
          /\ const_fold \in BOOLEAN
    /\ children = init_children
    /\ pc = "stage1"
    /\ autoidx = 1
    /\ nextuid = Len(init_children) + 1
    /\ mem2reg_candidates = NoScope
    /\ mem2reg_set = {}
    /\ retval = "none"
    /\ error = ""
    /\ trace = <<>>
    /\ NoEvaluation
    /\ NoScan
    /\ NoAiger

PassesOf(kind) == Cardinality({i \in DOMAIN trace : trace[i].op = kind})

\* one pass over the module root and what the while loop does with its result
Pass(stage, kind, again, next) ==
    /\ PassesOf(kind) < MaxPasses
    /\ \E r \in {SimplifyModule(children, stage, const_fold, autoidx, nextuid)} :
           /\ trace' = Append(trace, [op |-> kind, ret |-> r.did])
           /\ children' = r.ch
           /\ autoidx' = r.autoidx
           /\ nextuid' = r.nextuid
           /\ error' = r.err
           /\ pc' = IF r.err # "" THEN "error" ELSE IF r.did THEN again ELSE next
    /\ UNCHANGED <<mod_attributes, flag_nomem2reg, flag_mem2reg, mem2reg_candidates,
                   mem2reg_set, const_fold, retval, init_children>>
    /\ UNCHANGED <<evars, svars, avars>>

\* a stage-1 loop that stops after its first pass, whatever the pass returned
Stage1Once == pc = "stage1" /\ Pass(1, "stage1", "mem2reg", "mem2reg")

\* line 62
Stage1Pass == pc = "stage1" /\ Pass(1, "stage1", "stage1", "mem2reg")

Mem2regEnabled == ~flag_nomem2reg /\ ~(mod_attributes["\\nomem2reg"] \notin {NoAttr, 0})

\* line 64, condition false
Mem2regSkip ==
    /\ pc = "mem2reg" /\ ~Mem2regEnabled
    /\ pc' = "stage2"
    /\ UNCHANGED <<children, mod_attributes, flag_nomem2reg, flag_mem2reg, autoidx, nextuid,
                   mem2reg_candidates, mem2reg_set, const_fold, retval, error, trace,
                   init_children>>
    /\ UNCHANGED <<evars, svars, avars>>

\* lines 66-69
Mem2regPass1 ==
    /\ pc = "mem2reg" /\ Mem2regEnabled
    /\ mem2reg_candidates' = Pass1Module(children, mod_attributes, flag_mem2reg)
    /\ trace' = Append(trace, [op |-> "pass1", ret |-> FALSE])
    /\ pc' = "decide"
    /\ UNCHANGED <<children, mod_attributes, flag_nomem2reg, flag_mem2reg, autoidx, nextuid,
                   mem2reg_set, const_fold, retval, error, init_children>>
    /\ UNCHANGED <<evars, svars, avars>>

\* lines 71-113
Mem2regDecide ==
    /\ pc = "decide"
    /\ mem2reg_set' = {u \in DOMAIN mem2reg_candidates :
                          Mem2regDecision(NodeOf(children, u), mem2reg_candidates[u])}
    /\ pc' = "synth"
    /\ UNCHANGED <<children, mod_attributes, flag_nomem2reg, flag_mem2reg, autoidx, nextuid,
                   mem2reg_candidates, const_fold, retval, error, trace, init_children>>
    /\ UNCHANGED <<evars, svars, avars>>

\* lines 115-129
Mem2regSynth ==
    /\ pc = "synth"
    /\ \E c \in {SynthRegisters(Ctx(children, autoidx, nextuid), mem2reg_set)} :
           children' = c.mod /\ nextuid' = c.nextuid
    /\ pc' = "pass2"
    /\ UNCHANGED <<mod_attributes, flag_nomem2reg, flag_mem2reg, autoidx,
                   mem2reg_candidates, mem2reg_set, const_fold, retval, error, trace,
                   init_children>>
    /\ UNCHANGED <<evars, svars, avars>>

\* line 131
Mem2regPass2 ==
    /\ pc = "pass2"
    /\ \E c \in {Pass2Module(Ctx(children, autoidx, nextuid), mem2reg_set)} :
           children' = c.mod /\ nextuid' = c.nextuid /\ autoidx' = c.autoidx
    /\ trace' = Append(trace, [op |-> "pass2", ret |-> FALSE])
    /\ pc' = "delete"
    /\ UNCHANGED <<mod_attributes, flag_nomem2reg, flag_mem2reg, mem2reg_candidates,
                   mem2reg_set, const_fold, retval, error, init_children>>
    /\ UNCHANGED <<evars, svars, avars>>

\* lines 133-138
Mem2regDelete ==
    /\ pc = "delete"
    /\ children' = DeleteDemoted(children, mem2reg_set)
    /\ pc' = "stage2"
    /\ UNCHANGED <<mod_attributes, flag_nomem2reg, flag_mem2reg, autoidx, nextuid,
                   mem2reg_candidates, mem2reg_set, const_fold, retval, error, trace,
                   init_children>>
    /\ UNCHANGED <<evars, svars, avars>>

\* a stage 0 that returns without its stage-2 loop
Stage2Skip ==
    /\ pc = "stage2"
    /\ pc' = "return"
    /\ UNCHANGED <<children, mod_attributes, flag_nomem2reg, flag_mem2reg, autoidx, nextuid,
                   mem2reg_candidates, mem2reg_set, const_fold, retval, error, trace,
                   init_children>>
    /\ UNCHANGED <<evars, svars, avars>>

\* line 141
Stage2Pass == pc = "stage2" /\ Pass(2, "stage2", "stage2", "return")

\* line 142
Return ==
    /\ pc = "return"
    /\ retval' = "false"
    /\ pc' = "done"
    /\ UNCHANGED <<children, mod_attributes, flag_nomem2reg, flag_mem2reg, autoidx, nextuid,
                   mem2reg_candidates, mem2reg_set, const_fold, error, trace, init_children>>
    /\ UNCHANGED <<evars, svars, avars>>

\* the core run again on the module on which stage 0 has returned: one more
\* stage-1 pass over the module root, then one more stage-2 pass
Rerun1 == pc = "done" /\ Pass(1, "again1", "changed", "again1")
Rerun2 == pc = "again1" /\ Pass(2, "again2", "changed", "again2")

Next ==
    \/ Stage1Pass
    \/ Mem2regSkip
    \/ Mem2regPass1
    \/ Mem2regDecide
    \/ Mem2regSynth
    \/ Mem2regPass2
    \/ Mem2regDelete
    \/ Stage2Pass
    \/ Return
    \/ Rerun1
    \/ Rerun2

Spec == Init /\ [][Next]_vars

(***************************************************************************)
(* Constant evaluation of a function call, lines 1347-1349 and 2121-2335.  *)
(* The functions and calls the parser hands over.                          *)
(***************************************************************************)
NoWorkspace == Node("AST_NONE", <<>>, <<>>)
NoVariables == NoScope

Bits(v) == mkconst_bits(v, FALSE)
Zero2 == Bits(<<"0", "0">>)
Select(name, l, r) == [Ident(name) EXCEPT !.children = <<ConstRange(l, r)>>]
Set(lhs, rhs) == Stmt("AST_ASSIGN_EQ", lhs, rhs)
Begin(list) == Node("AST_BLOCK", <<>>, list)
For(init, cond, step, body) == Node("AST_FOR", <<>>, <<init, cond, step, body>>)
Arm(match, stmt) == Node("AST_COND", <<>>, <<match, stmt>>)

\* function [1:0] f; input [1:0] a; reg [1:0] t; <body> endfunction
FunctionWires(sgn) ==
    << Wire(<<"f">>, <<1, 0>>, FALSE, FALSE, FALSE, sgn, 0),
       Wire(<<"a">>, <<1, 0>>, TRUE, FALSE, FALSE, sgn, 1),
       Wire(<<"t">>, <<1, 0>>, FALSE, FALSE, TRUE, FALSE, 0) >>

F == Ident(<<"f">>)
A == Ident(<<"a">>)
T == Ident(<<"t">>)
ShiftT == Set(T, Select(<<"t">>, 1, 1))

FunctionBodies ==
    { Begin(<<Set(F, A)>>),
      Set(F, A),
      Begin(<<Set(F, Zero2), Set(Select(<<"f">>, 0, 0), A)>>),
      Begin(<<Set(Select(<<"f">>, 1, 0), A)>>),
      Begin(<<Set(F, Zero2), Set(Select(<<"f">>, 2, 1), A)>>),
      Begin(<<Set(F, Select(<<"a">>, 1, 1))>>),
      Begin(<<Set(F, Zero2), For(Set(T, A), T, ShiftT, Begin(<<Set(F, T)>>))>>),
      Begin(<<Set(F, Zero2), For(Set(T, A), T, ShiftT, Set(F, T))>>),
      Begin(<<Set(T, A), Set(F, Zero2),
              Node("AST_WHILE", <<>>, <<T, Begin(<<Set(F, T), ShiftT>>)>>)>>),
      Begin(<<Set(F, A),
              Node("AST_REPEAT", <<>>, <<A, Set(F, Select(<<"f">>, 1, 1))>>)>>),
      Begin(<<Node("AST_CASE", <<>>,
                   <<A, Arm(Node("AST_DEFAULT", <<>>, <<>>), Set(F, A)),
                        Arm(Bits(<<"1", "0">>), Begin(<<Set(F, Bits(<<"0", "1">>))>>))>>)>>),
      Begin(<<Set(F, A), Node("AST_CASE", <<>>, <<A, Arm(Bits(<<"1", "1">>), Set(F, Zero2))>>)>>),
      Begin(<<Set(F, Zero2), Stmt("AST_ASSIGN_LE", F, A)>>),
      Begin(<<Set(F, Ident(<<"w">>))>>),
      Begin(<<Set(Ident(<<"w">>), A), Set(F, A)>>) }

Functions ==
    { Node("AST_FUNCTION", <<"f">>, FunctionWires(sgn) \o <<body>>) :
        sgn \in BOOLEAN, body \in FunctionBodies }

\* the arguments of a call are constants
Constants ==
    { mkconst_bits(v, sgn) :
        v \in UNION { [1..k -> {"0", "1"}] : k \in 1..MaxArgBits }, sgn \in BOOLEAN }

\* the scope of the module at the call: the function, maybe a wire named as a
\* variable of the function is
Scopes ==
    { (<<"f">> :> "function:f"),
      (<<"f">> :> "function:f") @@ (<<"t">> :> "wire:t") @@ (<<"w">> :> "wire:w") }

\* no module is being simplified
NoModule ==
    /\ init_children = <<>> /\ children = <<>>
    /\ mod_attributes = NoAttributes
    /\ flag_nomem2reg = FALSE /\ flag_mem2reg = FALSE
    /\ const_fold = TRUE
    /\ pc = "done"
    /\ autoidx = 1
    /\ nextuid = 1
    /\ mem2reg_candidates = NoScope
    /\ mem2reg_set = {}
    /\ retval = "none"
    /\ error = ""
    /\ trace = <<>>

InitEval ==
    /\ NoModule
    /\ init_decl \in Functions
    /\ func_decl = init_decl
    /\ fcall \in { Node("AST_FCALL", <<"f">>, <<arg>>) : arg \in Constants }
    /\ current_scope \in Scopes
    /\ func_workspace = NoWorkspace
    /\ block_children = <<>>
    /\ variables = NoVariables
    /\ backup_scope = NoScope
    /\ returned = <<>>
    /\ steps = 0
    /\ epc = "idle"
    /\ NoScan
    /\ NoAiger

\* log_error inside the interpreter: the run is over
Abort(msg) ==
    /\ epc' = "error"
    /\ error' = msg
    /\ UNCHANGED <<children, mod_attributes, flag_nomem2reg, flag_mem2reg, pc, autoidx,
                   nextuid, mem2reg_candidates, mem2reg_set, const_fold, retval, trace,
                   init_children>>
    /\ UNCHANGED <<current_scope, func_decl, fcall, func_workspace, block_children, variables,
                   backup_scope, returned, steps, init_decl>>
    /\ UNCHANGED <<svars, avars>>

\* one iteration of the loop of line 2163 that leaves the statements and the variables as given
Step(new_block, new_variables) ==
    /\ block_children' = new_block
    /\ variables' = new_variables
    /\ steps' = steps + 1
    /\ UNCHANGED <<vars, svars, avars>>
    /\ UNCHANGED <<current_scope, func_decl, fcall, func_workspace, backup_scope, returned,
                   epc, init_decl>>

Running(type) ==
    epc = "run" /\ block_children # <<>> /\ Head(block_children).type = type /\ steps < MaxSteps

\* lines 1347-1348 and 2123-2161: the call site clones the function bound to
\* the name, the interpreter sets up the variables of the clone
CallConstFunction ==
    /\ epc = "idle" /\ Len(returned) < MaxEvals
    /\ \E e \in { EvalChildren(func_decl, 1, fcall,
                     [variables |-> NoVariables, backup |-> NoScope, scope |-> current_scope,
                      block |-> <<>>, has_block |-> FALSE, argidx |-> 0, err |-> "",
                      eval |-> Len(returned) + 1]) } :
          IF e.err # "" THEN Abort(e.err)
          ELSE IF ~e.has_block THEN Abort("Assert `block != NULL' failed")
          ELSE IF func_decl.str \notin DOMAIN e.variables
          THEN Abort("Assert `variables.count(str)' failed")
          ELSE /\ func_workspace' = func_decl
               /\ block_children' = e.block
               /\ variables' = e.variables
               /\ backup_scope' = e.backup
               /\ current_scope' = e.scope
               /\ steps' = 0
               /\ epc' = "run"
               /\ UNCHANGED <<vars, svars, avars>>
               /\ UNCHANGED <<func_decl, fcall, returned, init_decl>>

\* the values std::min(full, width) can take on line 2202, where width is read
\* before it is initialised: any value up to full; one below 0 copies as 0 does
UninitializedMin(full) == 0 .. full

\* lines 2174-2212
EvalAssignEq ==
    /\ Running("AST_ASSIGN_EQ")
    /\ \E rv \in { replace_variables(Head(block_children).children[2], variables) } :
       \E rhs \in { FoldExpr(rv.n) } :
       \E lhs \in { FoldLhs(Head(block_children).children[1]) } :
          IF rv.err # "" THEN Abort(rv.err)
          ELSE IF rhs.type # "AST_CONSTANT"
          THEN Abort("Non-constant expression in constant function")
          ELSE IF lhs.type # "AST_IDENTIFIER"
          THEN Abort("Unsupported composite left hand side in constant function")
          ELSE IF lhs.str \notin DOMAIN variables
          THEN Abort("Assignment to non-local variable in constant function")
          ELSE IF lhs.children = <<>>
          THEN Step(Tail(block_children),
                    [variables EXCEPT ![lhs.str].val = bitsAsConst(rhs, Len(@), rhs.is_signed)])
          ELSE IF ~lhs.children[1].range_valid THEN Abort("Non-constant range")
          ELSE LET range == lhs.children[1]
                   v == variables[lhs.str]
                   offset == Min(range.range_left, range.range_right)
                   r == bitsAsConst(rhs, Len(v.val), rhs.is_signed)
               IN  \E width \in UninitializedMin(Abs(range.range_left - range.range_right) + 1) :
                      IF \E i \in 0..(width - 1) :
                            \/ i + offset - v.offset \notin 0..(Len(v.val) - 1)
                            \/ i >= Len(r)
                      THEN Abort("std::out_of_range")
                      ELSE Step(Tail(block_children),
                                [variables EXCEPT ![lhs.str].val =
                                    [k \in 1..Len(v.val) |->
                                        IF k - 1 - (offset - v.offset) \in 0..(width - 1)
                                        THEN r[k - (offset - v.offset)] ELSE v.val[k]]])

\* lines 2214-2222
EvalFor ==
    /\ Running("AST_FOR")
    /\ \E stmt \in { Head(block_children) } :
          Step(<< stmt.children[1],
                  [stmt EXCEPT !.type = "AST_WHILE",
                               !.children = << stmt.children[2],
                                               [stmt.children[4] EXCEPT !.children =
                                                   Append(@, stmt.children[3])] >>] >>
               \o Tail(block_children), variables)

\* lines 2224-2243
EvalWhile ==
    /\ Running("AST_WHILE")
    /\ \E rv \in { replace_variables(Head(block_children).children[1], variables) } :
       \E cond \in { FoldExpr(rv.n) } :
          IF rv.err # "" THEN Abort(rv.err)
          ELSE IF cond.type # "AST_CONSTANT"
          THEN Abort("Non-constant expression in constant function")
          ELSE IF asBool(cond)
          THEN Step(<<Head(block_children).children[2]>> \o block_children, variables)
          ELSE Step(Tail(block_children), variables)

\* lines 2245-2262
EvalRepeat ==
    /\ Running("AST_REPEAT")
    /\ \E rv \in { replace_variables(Head(block_children).children[1], variables) } :
       \E num \in { FoldExpr(rv.n) } :
          IF rv.err # "" THEN Abort(rv.err)
          ELSE IF num.type # "AST_CONSTANT"
          THEN Abort("Non-constant expression in constant function")
          ELSE Step([i \in 1..as_int(num.bits) |-> Head(block_children).children[2]]
                    \o Tail(block_children), variables)

\* lines 2281-2295: does a literal of the arm equal the discriminant
RECURSIVE MatchArm(_, _, _, _)
MatchArm(arm, j, expr, vs) ==
    IF j >= Len(arm.children) THEN [found |-> FALSE, err |-> ""]
    ELSE Let(replace_variables(arm.children[j], vs), LAMBDA r :
         Let(FoldExpr(Node("AST_EQ", <<>>, <<expr, r.n>>)), LAMBDA cond :
             IF r.err # "" THEN [found |-> FALSE, err |-> r.err]
             ELSE IF cond.type # "AST_CONSTANT"
             THEN [found |-> FALSE, err |-> "Non-constant expression in constant function"]
             ELSE IF asBool(cond) THEN [found |-> TRUE, err |-> ""]
             ELSE MatchArm(arm, j + 1, expr, vs)))

\* lines 2270-2301: sel_case, as the empty sequence when it is NULL
RECURSIVE SelectCase(_, _, _, _, _)
SelectCase(stmt, i, expr, vs, sel_case) ==
    IF i > Len(stmt.children) THEN [sel_case |-> sel_case, err |-> ""]
    ELSE IF stmt.children[i].children[1].type = "AST_DEFAULT"
    THEN SelectCase(stmt, i + 1, expr, vs,
                    <<stmt.children[i].children[Len(stmt.children[i].children)]>>)
    ELSE Let(MatchArm(stmt.children[i], 1, expr, vs), LAMBDA m :
             IF m.err # "" THEN [sel_case |-> sel_case, err |-> m.err]
             ELSE IF m.found
             THEN [sel_case |-> <<stmt.children[i].children[Len(stmt.children[i].children)]>>,
                   err |-> ""]
             ELSE SelectCase(stmt, i + 1, expr, vs, sel_case))

\* lines 2264-2309
EvalCase ==
    /\ Running("AST_CASE")
    /\ \E rv \in { replace_variables(Head(block_children).children[1], variables) } :
          IF rv.err # "" THEN Abort(rv.err)
          ELSE \E s \in { SelectCase(Head(block_children), 2, FoldExpr(rv.n), variables, <<>>) } :
                  IF s.err # "" THEN Abort(s.err)
                  ELSE Step(s.sel_case \o Tail(block_children), variables)

\* lines 2311-2318
EvalBlock ==
    /\ Running("AST_BLOCK")
    /\ Step(Head(block_children).children \o Tail(block_children), variables)

\* lines 2320-2322
EvalUnsupported ==
    /\ epc = "run" /\ block_children # <<>> /\ steps < MaxSteps
    /\ Head(block_children).type \notin {"AST_ASSIGN_EQ", "AST_FOR", "AST_WHILE", "AST_REPEAT",
                                "AST_CASE", "AST_BLOCK"}
    /\ Abort("Unsupported language construct in constant function")

\* lines 2325-2334 and 1349: the scope is restored, the constant is returned,
\* the caller deletes the clone
EvalReturn ==
    /\ epc = "run" /\ block_children = <<>>
    /\ current_scope' = RestoreScope(current_scope, backup_scope)
    /\ returned' = Append(returned, mkconst_bits(variables[func_decl.str].val,
                                                 variables[func_decl.str].is_signed))
    /\ func_workspace' = NoWorkspace
    /\ variables' = NoVariables
    /\ backup_scope' = NoScope
    /\ epc' = "idle"
    /\ UNCHANGED <<vars, svars, avars>>
    /\ UNCHANGED <<func_decl, fcall, block_children, steps, init_decl>>

(***************************************************************************)
(* eval_const_function as one function of the call, for the calls the      *)
(* elaboration replaces by their value (line 1347).  The statements are    *)
(* taken from the front of block->children as in lines 2160-2326.  The     *)
(* assignment to a part of a variable reads a width that is not            *)
(* initialised (line 2202): its outcomes are explored by EvalAssignEq, and *)
(* the functions elaborated here assign whole variables only.              *)
(***************************************************************************)
RECURSIVE RunBlock(_, _)
RunBlock(block, vs) ==
    IF block = <<>> THEN [variables |-> vs, err |-> ""]
    ELSE LET stmt == Head(block)
             stop(msg) == [variables |-> vs, err |-> msg]
             nonconst == "Non-constant expression in constant function"
         IN
    CASE stmt.type = "AST_ASSIGN_EQ" ->
           Let(replace_variables(stmt.children[2], vs), LAMBDA rv :
           Let(FoldExpr(rv.n), LAMBDA rhs :
           Let(FoldLhs(stmt.children[1]), LAMBDA lhs :
               IF rv.err # "" THEN stop(rv.err)
               ELSE IF rhs.type # "AST_CONSTANT" THEN stop(nonconst)
               ELSE IF lhs.type # "AST_IDENTIFIER"
               THEN stop("Unsupported composite left hand side in constant function")
               ELSE IF lhs.str \notin DOMAIN vs
               THEN stop("Assignment to non-local variable in constant function")
               ELSE IF lhs.children # <<>>
               THEN stop("assignment to a part of a variable")
               ELSE RunBlock(Tail(block),
                        [vs EXCEPT ![lhs.str].val = bitsAsConst(rhs, Len(@), rhs.is_signed)]))))
      [] stmt.type = "AST_FOR" ->
           RunBlock(<< stmt.children[1],
                       [stmt EXCEPT !.type = "AST_WHILE",
                                    !.children = << stmt.children[2],
                                                    [stmt.children[4] EXCEPT !.children =
                                                        Append(@, stmt.children[3])] >>] >>
                    \o Tail(block), vs)
      [] stmt.type = "AST_WHILE" ->
           Let(replace_variables(stmt.children[1], vs), LAMBDA rv :
           Let(FoldExpr(rv.n), LAMBDA cond :
               IF rv.err # "" THEN stop(rv.err)
               ELSE IF cond.type # "AST_CONSTANT" THEN stop(nonconst)
               ELSE IF asBool(cond) THEN RunBlock(<<stmt.children[2]>> \o block, vs)
               ELSE RunBlock(Tail(block), vs)))
      [] stmt.type = "AST_REPEAT" ->
           Let(replace_variables(stmt.children[1], vs), LAMBDA rv :
           Let(FoldExpr(rv.n), LAMBDA num :
               IF rv.err # "" THEN stop(rv.err)
               ELSE IF num.type # "AST_CONSTANT" THEN stop(nonconst)
               ELSE RunBlock([i \in 1..as_int(num.bits) |-> stmt.children[2]]
                             \o Tail(block), vs)))
      [] stmt.type = "AST_CASE" ->
           Let(replace_variables(stmt.children[1], vs), LAMBDA rv :
               IF rv.err # "" THEN stop(rv.err)
               ELSE Let(SelectCase(stmt, 2, FoldExpr(rv.n), vs, <<>>), LAMBDA s :
                        IF s.err # "" THEN stop(s.err)
                        ELSE RunBlock(s.sel_case \o Tail(block), vs)))
      [] stmt.type = "AST_BLOCK" -> RunBlock(stmt.children \o Tail(block), vs)
      [] OTHER -> stop("Unsupported language construct in constant function")

\* AstNode::eval_const_function(fcall), lines 2121-2335: [n, err]
eval_const_function(decl, call) ==
    Let(EvalChildren(decl, 1, call,
            [variables |-> NoVariables, backup |-> NoScope, scope |-> NoScope,
             block |-> <<>>, has_block |-> FALSE, argidx |-> 0, err |-> "", eval |-> 1]),
        LAMBDA e :
            IF e.err # "" THEN [n |-> call, err |-> e.err]
            ELSE IF ~e.has_block THEN [n |-> call, err |-> "Assert `block != NULL' failed"]
            ELSE IF decl.str \notin DOMAIN e.variables
            THEN [n |-> call, err |-> "Assert `variables.count(str)' failed"]
            ELSE Let(RunBlock(e.block, e.variables), LAMBDA r :
                     IF r.err # "" THEN [n |-> call, err |-> r.err]
                     ELSE [n |-> mkconst_bits(r.variables[decl.str].val,
                                              r.variables[decl.str].is_signed),
                           err |-> ""]))

NextEval ==
    \/ CallConstFunction
    \/ EvalAssignEq
    \/ EvalFor
    \/ EvalWhile
    \/ EvalRepeat
    \/ EvalCase
    \/ EvalBlock
    \/ EvalUnsupported
    \/ EvalReturn

SpecEval == InitEval /\ [][NextEval]_<<vars, evars>>

(***************************************************************************)
(* The order of the passes of stage 0.                                     *)
(***************************************************************************)
Rank(op) == CASE op = "stage1" -> 1 [] op = "pass1" -> 2 [] op = "pass2" -> 3
              [] op = "stage2" -> 4 [] op = "again1" -> 5 [] op = "again2" -> 6

\* the passes run in the order stage 1, analysis, lowering, stage 2, and a
\* fixed-point loop goes on exactly when its pass returned true
PassOrder ==
    /\ \A i, j \in DOMAIN trace : i < j => Rank(trace[i].op) <= Rank(trace[j].op)
    /\ \A i \in DOMAIN trace : i < Len(trace) /\ trace[i].op \in {"stage1", "stage2"} =>
           (trace[i].ret <=> trace[i + 1].op = trace[i].op)
    /\ PassesOf("pass2") <= PassesOf("pass1")
    /\ pc = "stage2" => (PassesOf("pass2") = PassesOf("pass1"))

Returned == pc = "done"

\* C1 as the specification words it: when stage 0 has returned, it returned
\* false, the passes ran in order with each loop driven to its fixed point,
\* and the mem2reg analysis and lowering ran exactly once each
C1_AsStated ==
    Returned =>
        /\ retval = "false"
        /\ PassOrder
        /\ PassesOf("stage1") >= 1 /\ ~trace[PassesOf("stage1")].ret
        /\ PassesOf("stage2") >= 1 /\ ~trace[Len(trace)].ret
        /\ PassesOf("pass1") = 1 /\ PassesOf("pass2") = 1

\* C1, amended: the passes always run in the order stage 1, analysis, lowering,
\* stage 2, each fixed-point loop going on exactly while its pass returns
\* true; analysis and lowering run exactly once each when mem2reg is enabled
\* and not at all when the nomem2reg flag or the module's nomem2reg attribute
\* is set; and when stage 0 has returned, it returned false after a last
\* stage-1 pass and a last stage-2 pass that both returned false
C1_Order ==
    /\ PassOrder
    /\ PassesOf("pass1") <= 1 /\ PassesOf("pass2") <= 1
    /\ ~Mem2regEnabled => PassesOf("pass1") = 0 /\ PassesOf("pass2") = 0
    /\ Returned =>
           /\ retval = "false"
           /\ PassesOf("stage1") >= 1 /\ ~trace[PassesOf("stage1")].ret
           /\ PassesOf("stage2") >= 1 /\ ~trace[Len(trace)].ret
           /\ Mem2regEnabled => PassesOf("pass1") = 1 /\ PassesOf("pass2") = 1
    /\ pc \in {"stage1", "mem2reg", "decide", "synth", "pass2", "delete", "stage2", "return"}
           => retval = "none"

\* stage 0 has returned after more than one stage-1 pass, both mem2reg passes
\* and more than one stage-2 pass
C1_Witness ==
    /\ Returned /\ PassesOf("stage1") > 1 /\ PassesOf("stage2") > 1
    /\ PassesOf("pass1") = 1 /\ PassesOf("pass2") = 1

\* stage 0 has returned with mem2reg disabled
C1_WitnessSkip == Returned /\ ~Mem2regEnabled

(***************************************************************************)
(* The memories that stage 0 replaces by registers.                        *)
(***************************************************************************)
\* the mem2reg block of stage 0 is over (run or skipped)
AfterMem2reg ==
    \/ pc \in {"stage2", "return", "done"}
    \/ pc = "error" /\ PassesOf("stage2") > 0

Memories == {i \in DOMAIN init_children : init_children[i].type = "AST_MEMORY"}

\* the flags that the analysis collected for the memory u (none if it collected none)
CollectedFlags(u) ==
    IF u \in DOMAIN mem2reg_candidates THEN mem2reg_candidates[u] ELSE {}

Trigger(fl) ==
    \/ "FORCED" \in fl \/ "EQ2" \in fl \/ "SET_ASYNC" \in fl
    \/ ("SET_INIT" \in fl /\ "SET_ELSE" \in fl) \/ "CMPLX_LHS" \in fl

RegisterOf(m, w) ==
    {i \in DOMAIN children : /\ children[i].type = "AST_WIRE"
                             /\ children[i].str = Indexed(m.str, w)}

\* the memory declaration is gone and there is one register per word
Replaced(m) ==
    /\ \A i \in DOMAIN children : children[i].uid # m.uid
    /\ \A w \in 0..(mem_size(m) - 1) :
           \E i \in RegisterOf(m, w) :
               children[i].is_reg /\ children[i].is_signed = m.is_signed

\* the memory declaration is still a child of the module and has no registers
Kept(m) ==
    /\ \E i \in DOMAIN children : children[i].uid = m.uid /\ children[i].type = "AST_MEMORY"
    /\ \A w \in 0..(mem_size(m) - 1) : RegisterOf(m, w) = {}

\* C2: once the mem2reg block of stage 0 is over, a memory of the module has
\* been replaced by one register per word if and only if the flags collected
\* for it satisfy FORCED or EQ2 or SET_ASYNC or (SET_INIT and SET_ELSE) or
\* CMPLX_LHS and it does not carry nomem2reg; otherwise it is still declared
C2_Decision ==
    AfterMem2reg =>
        \A i \in Memories :
            IF Trigger(CollectedFlags(init_children[i].uid))
               /\ ~get_bool_attribute(init_children[i], "\\nomem2reg")
            THEN Replaced(init_children[i])
            ELSE Kept(init_children[i])

\* stage 0 has returned and replaced a memory for a flag other than FORCED
C2_Witness ==
    /\ Returned
    /\ \E i \in Memories :
           /\ "FORCED" \notin CollectedFlags(init_children[i].uid)
           /\ Trigger(CollectedFlags(init_children[i].uid))
           /\ Replaced(init_children[i])

\* stage 0 has returned and kept a memory that carries nomem2reg although its
\* collected flags include FORCED
C2_WitnessVeto ==
    /\ Returned
    /\ \E i \in Memories :
           /\ "FORCED" \in CollectedFlags(init_children[i].uid)
           /\ get_bool_attribute(init_children[i], "\\nomem2reg")
           /\ Kept(init_children[i])

(***************************************************************************)
(* What is left of the generate constructs when stage 0 has returned.      *)
(***************************************************************************)
\* the tree n holds a construct that elaboration removes.  With husks, the
\* emptied nodes count too and function and task declarations are searched
RECURSIVE Leftover(_, _)
Leftover(n, husks) ==
    \/ n.type \in {"AST_CELLARRAY", "AST_PRIMITIVE", "AST_PREFIX"}
    \/ n.type \in {"AST_GENFOR", "AST_GENIF", "AST_GENCASE"} /\ (husks \/ Len(n.children) # 0)
    \/ n.type = "AST_GENBLOCK" /\ Len(n.children) # 0
    \/ n.type = "AST_DEFPARAM" /\ (husks \/ n.str # <<>>)
    \/ /\ husks \/ n.type \notin {"AST_FUNCTION", "AST_TASK"}
       /\ \E i \in DOMAIN n.children : Leftover(n.children[i], husks)

\* C3 as the specification words it: when stage 0 has returned, no node of the
\* module tree is a genfor, genif, gencase, genblock with children, cellarray,
\* primitive, defparam or prefix
C3_AsStated == Returned => \A i \in DOMAIN children : ~Leftover(children[i], TRUE)

\* C3, amended: when stage 0 has returned, outside function and task
\* declarations no node of the module tree is a genfor, genif, gencase or
\* genblock that still has children, a cellarray, a primitive, a defparam that
\* still has its name, or a prefix
C3_NoGenerate == Returned => \A i \in DOMAIN children : ~Leftover(children[i], FALSE)

\* stage 0 has returned on a module that had a generate construct with
\* children, and the emptied node is still a child of the module
C3_Witness ==
    /\ Returned
    /\ \E i \in DOMAIN init_children : Leftover(init_children[i], FALSE)
    /\ \E i \in DOMAIN children :
           children[i].type \in {"AST_GENFOR", "AST_GENIF", "AST_GENCASE", "AST_DEFPARAM"}

(***************************************************************************)
(* Scope closure: where the identifiers point when stage 0 has returned.   *)
(***************************************************************************)
\* the declarations that are children of the module now
ModuleDecls == {children[i].uid : i \in DOMAIN children} \ {0}

\* some identifier of the tree n has an id2ast that is null or is not in
\* decls; everywhere searches function and task declarations too
RECURSIVE Dangling(_, _, _)
Dangling(n, decls, everywhere) ==
    \/ n.type = "AST_IDENTIFIER" /\ n.id2ast \notin decls
    \/ /\ everywhere \/ n.type \notin {"AST_FUNCTION", "AST_TASK"}
       /\ \E i \in DOMAIN n.children : Dangling(n.children[i], decls, everywhere)

\* C4 as the specification words it: when stage 0 has returned, every
\* identifier of the module tree points to a declaration that is a child of
\* the module
C4_AsStated ==
    Returned => \A i \in DOMAIN children : ~Dangling(children[i], ModuleDecls, TRUE)

\* C4, amended: when stage 0 has returned, every identifier of the module
\* tree outside function and task declarations points to a declaration that
\* is a child of the module
C4_Resolved ==
    Returned => \A i \in DOMAIN children : ~Dangling(children[i], ModuleDecls, FALSE)

\* stage 0 has returned after it removed a demoted memory that identifiers of
\* a process referred to
C4_Witness ==
    /\ Returned /\ mem2reg_set # {}
    /\ \E i \in DOMAIN init_children :
           /\ init_children[i].type = "AST_ALWAYS"
           /\ Dangling(init_children[i], mem2reg_set, FALSE)

(***************************************************************************)
(* The identifiers that refer to a demoted memory.                         *)
(***************************************************************************)
\* some identifier of the tree n has its id2ast in set
RECURSIVE RefersInto(_, _)
RefersInto(n, set) ==
    \/ n.type = "AST_IDENTIFIER" /\ n.id2ast \in set
    \/ \E i \in DOMAIN n.children : RefersInto(n.children[i], set)

\* the names of the memories that were demoted
DemotedNames ==
    {init_children[i].str : i \in {j \in Memories : init_children[j].uid \in mem2reg_set}}

\* some identifier of the tree n still indexes a name of names
RECURSIVE IndexesName(_, _)
IndexesName(n, names) ==
    \/ n.type = "AST_IDENTIFIER" /\ n.str \in names /\ Len(n.children) > 0
    \/ \E i \in DOMAIN n.children : IndexesName(n.children[i], names)

\* the lowering is over
Lowered == PassesOf("pass2") = 1

\* C5: once the lowering is over, no identifier of the module refers to a
\* demoted memory, the identifiers in the address assignments that the
\* lowering made included; and when stage 0 has returned, no identifier
\* still indexes the name of a demoted memory
C5_NoDemotedRefs ==
    /\ Lowered => \A i \in DOMAIN children : ~RefersInto(children[i], mem2reg_set)
    /\ Returned => \A i \in DOMAIN children : ~IndexesName(children[i], DemotedNames)

\* the lowering is over and the address assignment it made for a nested
\* access refers to the demoted memory
C5_Stale ==
    /\ Lowered /\ pc = "delete"
    /\ \E i \in DOMAIN children :
           /\ children[i].type = "AST_ALWAYS"
           /\ RefersInto(children[i], mem2reg_set)

(***************************************************************************)
(* Idempotence of the core on an elaborated module.                        *)
(***************************************************************************)
\* a further pass returns false without a fatal error and leaves the children
\* of the module as they are
FurtherPassIsNoOp ==
    pc \in {"done", "again1"} =>
        /\ pc' \in {"again1", "again2"}
        /\ ~trace'[Len(trace')].ret
        /\ children' = children

\* C6: on a module on which stage 0 has returned, one more stage-1 pass and
\* then one more stage-2 pass over the module root each return false without
\* a fatal error and leave the children of the module as they are
C6_Idempotent == [][FurtherPassIsNoOp]_vars

\* both further passes have run on a module that stage 0 changed
C6_Witness == pc = "again2" /\ children # init_children /\ PassesOf("stage2") > 1

(***************************************************************************)
(* Purity of constant evaluation.                                          *)
(***************************************************************************)
\* the declaration the name of the function is bound to is the one the parser
\* handed over, whenever no evaluation is under way
DeclarationKept ==
    /\ func_decl = init_decl
    /\ epc = "idle" =>
          /\ func_decl.str \in DOMAIN current_scope
          /\ current_scope[func_decl.str] = "function:" \o Flat(func_decl.str)

\* C7: constant-function evaluation is deterministic and free of side effects
\* on the declaration: the evaluations of one declaration with the same
\* constant arguments, each on a clone of its own, return the same bits and the
\* same signedness, and the declaration bound in the scope is the same before
\* and after every evaluation
C7_Pure ==
    /\ \A i, j \in DOMAIN returned :
          /\ returned[i].bits = returned[j].bits
          /\ returned[i].is_signed = returned[j].is_signed
    /\ DeclarationKept

\* two evaluations of one call have returned different bits
C7_Divergent ==
    /\ epc = "idle" /\ Len(returned) = 2
    /\ returned[1].bits # returned[2].bits
    /\ DeclarationKept

(***************************************************************************)
(* Merging of the declarations of one wire.                                *)
(***************************************************************************)
\* the positions in ch of the wire declarations named name
WiresNamed(ch, name) == {i \in DOMAIN ch : ch[i].type = "AST_WIRE" /\ ch[i].str = name}

FirstOf(set) == CHOOSE i \in set : \A j \in set : i <= j
LastOf(set) == CHOOSE i \in set : \A j \in set : i >= j

\* name has several declarations in ch, each later one compatible with the first
SeveralCompatible(ch, name) ==
    /\ Cardinality(WiresNamed(ch, name)) > 1
    /\ \A i \in WiresNamed(ch, name) \ {FirstOf(WiresNamed(ch, name))} :
          WiresAreCompatible(ch[FirstOf(WiresNamed(ch, name))], ch[i])

\* the value of attribute a on the latest of the declarations of ch at the
\* positions set that has it
LatestAttribute(ch, set, a) ==
    IF \A i \in set : ch[i].attributes[a] = NoAttr THEN NoAttr
    ELSE ch[LastOf({i \in set : ch[i].attributes[a] # NoAttr})].attributes[a]

\* this step is a pass of the core over the module root that ended without error
PassDone ==
    /\ Len(trace') = Len(trace) + 1
    /\ trace'[Len(trace')].op \in {"stage1", "stage2", "again1", "again2"}
    /\ error' = ""

WireNames == {children[i].str : i \in {k \in DOMAIN children : children[k].type = "AST_WIRE"}}

MergedByPass ==
    \A name \in WireNames :
       PassDone /\ SeveralCompatible(children, name) =>
          LET set == WiresNamed(children, name)
              first == children[FirstOf(set)]
              left == WiresNamed(children', name)
          IN  /\ Cardinality(left) = 1
              /\ \A k \in left :
                    /\ children'[k].uid = first.uid
                    /\ children'[k].is_input = (\E i \in set : children[i].is_input)
                    /\ children'[k].is_output = (\E i \in set : children[i].is_output)
                    /\ children'[k].is_reg = (\E i \in set : children[i].is_reg)
                    /\ children'[k].is_signed = (\E i \in set : children[i].is_signed)
                    /\ \A a \in AttrNames :
                          children'[k].attributes[a] = LatestAttribute(children, set, a)

\* C8: when a module holds several compatible declarations of one wire, after
\* a pass exactly one declaration of the name remains, the first; each of its
\* is_input, is_output, is_reg, is_signed is the OR of that flag over the
\* merged declarations, and an attribute has the value the latest declaration
\* that carries it gave it
C8_Merge == [][MergedByPass]_vars

\* two declarations of w were compatible, both carried \keep with different
\* values and only the later one was signed, and one pass has merged them
\* into the first
C8_Witness ==
    /\ Len(trace) = 1 /\ error = ""
    /\ SeveralCompatible(init_children, <<"w">>)
    /\ Cardinality(WiresNamed(init_children, <<"w">>)) = 2
    /\ init_children[1].attributes["\\keep"] = 1
    /\ init_children[2].attributes["\\keep"] = 0
    /\ init_children[2].is_signed /\ ~init_children[1].is_signed
    /\ Cardinality(WiresNamed(children, <<"w">>)) = 1
    /\ children[1].uid = init_children[1].uid
    /\ children[1].attributes["\\keep"] = 0
    /\ children[1].is_signed

(***************************************************************************)
(* A later declaration that gives a wire its port direction.               *)
(***************************************************************************)
\* the ranges of two declarations agree, as lines 183-198 compare them
SameRange(first_node, node) ==
    /\ Len(first_node.children) = Len(node.children)
    /\ \A j \in DOMAIN node.children :
          \/ first_node.children[j] = node.children[j]
          \/ /\ first_node.children[j].type = "AST_RANGE"
             /\ node.children[j].type = "AST_RANGE"
             /\ first_node.children[j].range_valid /\ node.children[j].range_valid
             /\ first_node.children[j].range_left = node.children[j].range_left
             /\ first_node.children[j].range_right = node.children[j].range_right
    /\ first_node.range_left = node.range_left
    /\ first_node.range_right = node.range_right

\* children[j] declares again, with a port direction and the same range, the
\* wire that children[i] is the first declaration of
DirectionFor(i, j) ==
    /\ children[i].type = "AST_WIRE" /\ children[j].type = "AST_WIRE"
    /\ children[i].str = children[j].str
    /\ i = FirstOf(WiresNamed(children, children[i].str))
    /\ j > i
    /\ children[j].is_input \/ children[j].is_output
    /\ SameRange(children[i], children[j])

\* the step is a pass, of stage 1 or of stage 2, whether it ended in an error or not
PassOfStage(stage) ==
    /\ Len(trace') = Len(trace) + 1
    /\ trace'[Len(trace')].op \in (IF stage = 1 THEN {"stage1", "again1"}
                                   ELSE {"stage2", "again2"})

\* after the step children[j] is gone and the first declaration has its direction
MergedInto(i, j) ==
    /\ \A k \in DOMAIN children' : children'[k].uid # children[j].uid
    /\ \E k \in DOMAIN children' :
          /\ children'[k].uid = children[i].uid
          /\ children[j].is_input => children'[k].is_input
          /\ children[j].is_output => children'[k].is_output

\* after the step both declarations are children of the module, flags as before
BothKept(i, j) ==
    \A d \in {i, j} : \E k \in DOMAIN children' :
       /\ children'[k].uid = children[d].uid
       /\ children'[k].is_input = children[d].is_input
       /\ children'[k].is_output = children[d].is_output

UpgradeOfNonPort ==
    \A i, j \in DOMAIN children :
       /\ PassDone /\ DirectionFor(i, j)
       /\ children[i].port_id = 0 /\ ~children[i].is_input /\ ~children[i].is_output
       => MergedInto(i, j)

\* C9 as the specification has it: a wire first declared without being a port
\* (port_id 0, neither input nor output) is upgraded by a later declaration of
\* the name with the same range that is marked input or output; the two are
\* merged and the survivor carries the direction
C9_AsStated == [][UpgradeOfNonPort]_vars

DirectionOfPort ==
    \A i, j \in DOMAIN children :
       DirectionFor(i, j) =>
          /\ PassDone /\ children[i].port_id # 0 => MergedInto(i, j)
          /\ PassOfStage(1) /\ children[i].port_id = 0 =>
                error' = "" /\ BothKept(i, j)
          /\ PassOfStage(2) /\ children[i].port_id = 0 =>
                error' = "Incompatible re-declaration of wire"

\* C9: a later declaration of the same range that is marked input or output is
\* merged into the first declaration, which then carries the direction, when
\* the first declaration has a port position (port_id not 0); when the first
\* declaration has port_id 0 the two are incompatible: a stage-1 pass keeps
\* both, a stage-2 pass ends in the error of the incompatible re-declaration
C9_Direction == [][DirectionOfPort]_vars

\* a wire with a port position and no direction got its direction from the
\* later declaration, which one pass has merged into it
C9_Witness ==
    /\ Len(trace) = 1 /\ error = ""
    /\ init_children[1].port_id = 1 /\ ~init_children[1].is_input
    /\ init_children[2].type = "AST_WIRE" /\ init_children[2].is_input
    /\ init_children[2].str = init_children[1].str
    /\ Cardinality(WiresNamed(children, <<"w">>)) = 1
    /\ children[1].uid = init_children[1].uid /\ children[1].is_input

\* a wire without port position is declared input later on: the stage-1 passes
\* kept both declarations, the stage-2 pass has ended in the error
C9_WitnessNonPort ==
    /\ error = "Incompatible re-declaration of wire"
    /\ trace[Len(trace)].op = "stage2"
    /\ children[1].port_id = 0 /\ ~children[1].is_input /\ ~children[1].is_output
    /\ children[2].type = "AST_WIRE" /\ children[2].str = children[1].str
    /\ children[2].is_input /\ SameRange(children[1], children[2])

(***************************************************************************)
(* Incompatible re-declarations.                                           *)
(***************************************************************************)
\* every identifier in n that names name refers to the object uid
RECURSIVE BoundTo(_, _, _)
BoundTo(n, name, uid) ==
    /\ n.type = "AST_IDENTIFIER" /\ n.str = name => n.id2ast = uid
    /\ \A k \in DOMAIN n.children : BoundTo(n.children[k], name, uid)

\* children[j] declares again the wire that children[i] is the first
\* declaration of, with another range or another number of children, and is
\* no bare reg without range and direction
Redeclares(i, j) ==
    /\ children[i].type = "AST_WIRE" /\ children[j].type = "AST_WIRE"
    /\ children[i].str = children[j].str
    /\ i = FirstOf(WiresNamed(children, children[i].str))
    /\ j > i
    /\ ~SameRange(children[i], children[j])
    /\ ~(/\ ~children[j].is_input /\ ~children[j].is_output
         /\ children[j].is_reg /\ children[j].children = <<>>)

\* the first declaration children[i] and the declarations of its name that the
\* pass merges into it
MergedWith(i) ==
    {i} \cup {k \in WiresNamed(children, children[i].str) :
                k > i /\ WiresAreCompatible(children[i], children[k])}

\* after the step both declarations are children of the module and what a merge
\* changes is as it was: the later one has its flags and attributes, the first
\* one has taken nothing from it (its own, when the name has no third
\* declaration that is compatible)
BothUnmerged(i, j) ==
    /\ \E k \in DOMAIN children' :
          /\ children'[k].uid = children[j].uid
          /\ children'[k].str = children[j].str
          /\ children'[k].port_id = children[j].port_id
          /\ children'[k].is_input = children[j].is_input
          /\ children'[k].is_output = children[j].is_output
          /\ children'[k].is_reg = children[j].is_reg
          /\ children'[k].is_signed = children[j].is_signed
          /\ children'[k].attributes = children[j].attributes
    /\ \E k \in DOMAIN children' :
          /\ children'[k].uid = children[i].uid
          /\ children'[k].str = children[i].str
          /\ children'[k].port_id = children[i].port_id
          /\ children'[k].is_input = (\E m \in MergedWith(i) : children[m].is_input)
          /\ children'[k].is_output = (\E m \in MergedWith(i) : children[m].is_output)
          /\ children'[k].is_reg = (\E m \in MergedWith(i) : children[m].is_reg)
          /\ children'[k].is_signed = (\E m \in MergedWith(i) : children[m].is_signed)
          /\ \A a \in AttrNames :
                children'[k].attributes[a] = LatestAttribute(children, MergedWith(i), a)

IncompatibleByStage ==
    \A i, j \in DOMAIN children :
       Redeclares(i, j) =>
          /\ PassOfStage(2) => error' = "Incompatible re-declaration of wire"
          /\ PassOfStage(1) =>
                /\ error' = ""
                /\ BothUnmerged(i, j)
                /\ ModuleScopeLoop(children, 1, NoScope, NoScope, FALSE, 1).scope[children[i].str]
                      = children[i].uid
                /\ \A k \in DOMAIN children' :
                      BoundTo(children'[k], children[i].str, children[i].uid)

BoundByFunction == { func_decl.children[i].str : i \in { k \in DOMAIN func_decl.children :
                                                        func_decl.children[k].type = "AST_WIRE" } }

\* the scope binds a name of the function to a wire of a workspace clone
BindsClone == \E name \in DOMAIN current_scope \cap BoundByFunction :
                  \E eval \in 1..MaxEvals : current_scope[name] = WireOf(eval, name)

\* every name the function bound has the binding of the scope at the call, or none
ScopeAsBefore ==
    /\ current_scope \in Scopes
    /\ ~BindsClone

C11_WitnessFatal == epc = "error" /\ BindsClone

(***************************************************************************)
(* Modules with loops to unroll, and the specification that runs stage 0   *)
(* on the modules of this and the following sections.                      *)
(***************************************************************************)
LoopDecls(p) ==
    <<Node("AST_GENVAR", <<"i">>, <<>>),
      Node("AST_LOCALPARAM", <<"P">>, <<mkconst_int(p)>>),
      Wire(<<"a">>, <<>>, TRUE, FALSE, FALSE, FALSE, 1),
      Wire(<<"y">>, <<3, 0>>, FALSE, TRUE, TRUE, FALSE, 2),
      Wire(<<"k">>, <<>>, FALSE, FALSE, TRUE, FALSE, 0)>>

\* for (v = init; cond; v = v + step) body
Loop(type, v, init, cond, step, body) ==
    Node(type, <<>>,
         <<Stmt("AST_ASSIGN_EQ", Ident(v), init), cond,
           Stmt("AST_ASSIGN_EQ", Ident(v), Node("AST_ADD", <<>>, <<Ident(v), step>>)),
           body>>)

LoopInits == {mkconst_int(0), mkconst_int(1), Ident(<<"a">>)}
LoopConds(v) == {Node("AST_LT", <<>>, <<Ident(v), Ident(<<"P">>)>>), Ident(<<"a">>)}
LoopSteps == {mkconst_int(1), mkconst_int(2), Ident(<<"a">>)}

\* generate for (i = ..) begin : blk wire t; assign t = a; end, and
\* always @* begin for (k = ..) y[k] <= a; end
LoopModules ==
    { LoopDecls(p) \o <<Loop("AST_GENFOR", <<"i">>, init, cond, step, Body(<<"blk">>))>> :
        p \in 0..MaxParam + 1, init \in LoopInits, cond \in LoopConds(<<"i">>),
        step \in LoopSteps }
    \cup
    { LoopDecls(p) \o
      <<Always(FALSE, <<Loop("AST_FOR", <<"k">>, init, cond, step,
                              Stmt("AST_ASSIGN_LE", At(<<"y">>, Ident(<<"k">>)),
                                   Ident(<<"a">>)))>>)>> :
        p \in 0..MaxParam + 1, init \in LoopInits, cond \in LoopConds(<<"k">>),
        step \in LoopSteps }

(***************************************************************************)
(* Generate-case blocks: the arm that is expanded.                         *)
(***************************************************************************)
\* literals of 2 and 3 bits: 3'b111, 3'sb111, 3'b011, 2'b01
CaseLiterals ==
    { mkconst_bits(<<"1", "1", "1">>, FALSE), mkconst_bits(<<"1", "1", "1">>, TRUE),
      mkconst_bits(<<"1", "1", "0">>, FALSE), mkconst_bits(<<"1", "0">>, FALSE) }

\* the discriminant P: 2'b11, 2'sb11, 2'b01
CaseParams ==
    { mkconst_bits(<<"1", "1">>, FALSE), mkconst_bits(<<"1", "1">>, TRUE),
      mkconst_bits(<<"1", "0">>, FALSE) }

\* k: begin : arm<k> wire t; end
CaseArm(match, k) ==
    Node("AST_COND", <<>>, match \o <<GenBlock(<<"arm" \o ToString(k)>>, <<PlainWire(<<"t">>)>>)>>)

CaseArms ==
    { <<CaseArm(<<l1>>, 1), CaseArm(<<l2>>, 2), CaseArm(<<l3>>, 3)>> :
        l1 \in CaseLiterals, l2 \in CaseLiterals, l3 \in CaseLiterals }
    \cup { InsertAt(<<CaseArm(<<l1>>, 1), CaseArm(<<l2>>, 2)>>, at,
                    CaseArm(<<Node("AST_DEFAULT", <<>>, <<>>)>>, 3)) :
             l1 \in CaseLiterals, l2 \in CaseLiterals, at \in 1..3 }
    \cup { <<CaseArm(<<l1, l2>>, 1), CaseArm(<<l3>>, 2)>> :
             l1 \in {mkconst_bits(<<"1", "0">>, FALSE)}, l2 \in CaseLiterals,
             l3 \in {mkconst_bits(<<"1", "1", "0">>, FALSE)} }

CaseModules ==
    { <<Node("AST_LOCALPARAM", <<"P">>, <<p>>),
        Wire(<<"a">>, <<>>, TRUE, FALSE, FALSE, FALSE, 1),
        Node("AST_GENCASE", <<>>, <<Ident(<<"P">>)>> \o arms)>> :
        p \in CaseParams, arms \in CaseArms }

(***************************************************************************)
(* Assignments to a dynamic bit or part select of a wire.                  *)
(***************************************************************************)
PartSelect(name, left, right) ==
    [Ident(name) EXCEPT !.children = <<Node("AST_RANGE", <<>>, <<left, right>>)>>]
Plus(a, b) == Node("AST_ADD", <<>>, <<a, b>>)

\* y[a], y[a+1:a], y[a+2:a], y[a+P:a]
DynamicSelects ==
    { At(<<"y">>, Ident(<<"a">>)) }
    \cup { PartSelect(<<"y">>, Plus(Ident(<<"a">>), w), Ident(<<"a">>)) :
             w \in {mkconst_int(1), mkconst_int(2), Ident(<<"P">>)} }

DynamicModules ==
    { <<Wire(<<"y">>, r, FALSE, TRUE, TRUE, FALSE, 1),
        Node("AST_LOCALPARAM", <<"P">>, <<mkconst_int(p)>>),
        Wire(<<"a">>, <<1, 0>>, TRUE, FALSE, FALSE, FALSE, 2),
        Wire(<<"d">>, <<>>, TRUE, FALSE, FALSE, FALSE, 3),
        Always(FALSE, <<Stmt(type, lhs, Ident(<<"d">>))>>)>> :
        r \in {<<>>, <<3, 0>>, <<0, 3>>, <<2, 1>>}, p \in 0..MaxParam,
        type \in {"AST_ASSIGN_EQ", "AST_ASSIGN_LE"}, lhs \in DynamicSelects }

(***************************************************************************)
(* Assertions in processes and at the level of the module.                 *)
(***************************************************************************)
Assertion(cond, keep) == WithAttr(Node("AST_ASSERT", <<>>, <<Ident(cond)>>), "\\keep", keep)

AssertBodies(keep) ==
    LET assign == Stmt("AST_ASSIGN_LE", Ident(<<"y">>), Ident(<<"a">>))
        as_a == Assertion(<<"a">>, keep)
        as_b == Assertion(<<"b">>, NoAttr)
    IN  { <<as_a>>, <<assign, as_a>>, <<as_a, as_b>>, <<as_b, assign, as_a>>,
          <<Node("AST_BLOCK", <<>>, <<as_a>>)>>,
          <<assign, Node("AST_BLOCK", <<>>, <<as_b, as_a>>)>>,
          <<Node("AST_CASE", <<>>,
                 <<Ident(<<"b">>),
                   Node("AST_COND", <<>>, <<mkconst_int(1), Node("AST_BLOCK", <<>>, <<as_a>>)>>)>>)>> }

AssertDecls ==
    <<Wire(<<"clk">>, <<>>, TRUE, FALSE, FALSE, FALSE, 1),
      Wire(<<"a">>, <<>>, TRUE, FALSE, FALSE, FALSE, 2),
      Wire(<<"b">>, <<>>, TRUE, FALSE, FALSE, FALSE, 3),
      Wire(<<"y">>, <<>>, FALSE, TRUE, TRUE, FALSE, 4)>>

AssertModules ==
    { AssertDecls \o <<Always(edge, body)>> :
        edge \in BOOLEAN, body \in UNION { AssertBodies(keep) : keep \in {NoAttr, 1} } }
    \cup { AssertDecls \o <<Assertion(<<"a">>, keep)>> : keep \in {NoAttr, 1} }

(***************************************************************************)
(* Calls of user functions and tasks.                                      *)
(***************************************************************************)
\* localparam P = 2; input [1:0] a, b; output reg [1:0] y; reg [1:0] k;
CallDecls ==
    <<Node("AST_LOCALPARAM", <<"P">>, <<mkconst_int(2)>>),
      Wire(<<"a">>, <<1, 0>>, TRUE, FALSE, FALSE, FALSE, 1),
      Wire(<<"b">>, <<1, 0>>, TRUE, FALSE, FALSE, FALSE, 2),
      Wire(<<"y">>, <<1, 0>>, FALSE, TRUE, TRUE, FALSE, 3),
      Wire(<<"k">>, <<1, 0>>, FALSE, FALSE, TRUE, FALSE, 0)>>

B == Ident(<<"b">>)
Y == Ident(<<"y">>)
K == Ident(<<"k">>)

\* function [1:0] f; input [1:0] a; input [1:0] b; reg [1:0] t; <body> endfunction
\* task f; input [1:0] a; input [1:0] b; reg [1:0] t; <body> endtask
Callee(type, body) ==
    Node(type, <<"f">>,
         (IF type = "AST_FUNCTION"
          THEN <<Wire(<<"f">>, <<1, 0>>, FALSE, FALSE, FALSE, FALSE, 0)>> ELSE <<>>)
         \o <<Wire(<<"a">>, <<1, 0>>, TRUE, FALSE, FALSE, FALSE, 1),
              Wire(<<"b">>, <<1, 0>>, TRUE, FALSE, FALSE, FALSE, 2),
              Wire(<<"t">>, <<1, 0>>, FALSE, FALSE, TRUE, FALSE, 0)>>
         \o body)

\* begin t = b; f = a; end
PlainBody == <<Begin(<<Set(T, B), Set(F, A)>>)>>
\* t = b; f = a;
ListBody == <<Set(T, B), Set(F, A)>>
\* begin f = b; for (t = a; t; t = t[1:1]) f = t; end
ForBody == <<Begin(<<Set(F, B), For(Set(T, A), T, ShiftT, Begin(<<Set(F, T)>>))>>)>>
\* begin t = a; f = b; while (t) begin f = t; t = t[1:1]; end end
WhileBody ==
    <<Begin(<<Set(T, A), Set(F, B),
              Node("AST_WHILE", <<>>, <<T, Begin(<<Set(F, T), ShiftT>>)>>)>>)>>
\* begin t = b; y = a; end
TaskBody == <<Begin(<<Set(T, B), Set(Y, A)>>)>>

\* the actual arguments: wires, a parameter, a literal
CallArgs == {A, B, Ident(<<"P">>), Bits(<<"1", "0">>)}
CallArgLists == { <<x>> : x \in CallArgs } \cup { <<x, z>> : x \in CallArgs, z \in CallArgs }
Call(type, args) == Node(type, <<"f">>, args)

CallModules ==
    \* always @* begin [k = a;] y = f(..); [k = b;] end
    { CallDecls \o
      <<Callee("AST_FUNCTION", body),
        Always(FALSE, pre \o <<Stmt(kind, Y, Call("AST_FCALL", args))>> \o post)>> :
        body \in {PlainBody, ListBody, ForBody, WhileBody}, kind \in {"AST_ASSIGN_EQ"},
        pre \in {<<>>, <<Set(K, A)>>}, post \in {<<>>, <<Set(K, B)>>},
        args \in CallArgLists }
    \cup
    \* always @(posedge clk) begin k <= a; y <= f(..); end
    { CallDecls \o
      <<Callee("AST_FUNCTION", PlainBody),
        Always(TRUE, <<Stmt("AST_ASSIGN_LE", K, A),
                       Stmt("AST_ASSIGN_LE", Y, Call("AST_FCALL", args))>>)>> :
        args \in CallArgLists }
    \cup
    \* always @* begin [k = a;] f(..); [k = b;] end
    { CallDecls \o
      <<Callee("AST_TASK", TaskBody),
        Always(FALSE, pre \o <<Call("AST_TCALL", args)>> \o post)>> :
        pre \in {<<>>, <<Set(K, A)>>}, post \in {<<>>, <<Set(K, B)>>},
        args \in CallArgLists }
    \cup
    \* assign y = f(..);
    { CallDecls \o
      <<Callee("AST_FUNCTION", body),
        Node("AST_ASSIGN", <<>>, <<Y, Call("AST_FCALL", args)>>)>> :
        body \in {PlainBody, WhileBody}, args \in CallArgLists }
    \cup
    \* localparam Q = f(..);
    { CallDecls \o
      <<Callee("AST_FUNCTION", body),
        Node("AST_LOCALPARAM", <<"Q">>, <<Call("AST_FCALL", args)>>)>> :
        body \in {PlainBody, ForBody, WhileBody}, args \in CallArgLists }
    \cup
    \* wire [f(..):0] w;
    { CallDecls \o
      <<Callee("AST_FUNCTION", PlainBody),
        [PlainWire(<<"w">>) EXCEPT !.children =
            <<Node("AST_RANGE", <<>>, <<Call("AST_FCALL", args), mkconst_int(0)>>)>>]>> :
        args \in CallArgLists }

(***************************************************************************)
(* Ranges with bounds in either order and of either sign.                  *)
(***************************************************************************)
\* a bound as it is written: 3, -2
Bound(v) == IF v < 0 THEN Node("AST_NEG", <<>>, <<mkconst_int(0 - v)>>) ELSE mkconst_int(v)
RangeBounds == {0 - 2, 0 - 1, 0, 1, 3}
RangeOf(l, r) == Node("AST_RANGE", <<>>, <<Bound(l), Bound(r)>>)

\* wire [l:r] w; output [3:0] y; assign y = w[l:r];
RangeModules ==
    { <<[PlainWire(<<"w">>) EXCEPT !.children = <<RangeOf(l, r)>>],
        Wire(<<"y">>, <<3, 0>>, FALSE, TRUE, FALSE, FALSE, 1),
        Node("AST_ASSIGN", <<>>,
             <<Y, [Ident(<<"w">>) EXCEPT !.children = <<RangeOf(l, r)>>]>>)>> :
        l \in RangeBounds, r \in RangeBounds }

(***************************************************************************)
(* Parameters with a range.                                                *)
(***************************************************************************)
\* parameter [signed] [l:r] P = init;
RangedParameter(type, sgn, init, l, r) ==
    [Node(type, <<"P">>, <<init, ConstRange(l, r)>>) EXCEPT !.is_signed = sgn]

ParameterRanges == {<<7, 0>>, <<3, 0>>, <<2, 0>>, <<1, 0>>, <<0, 0>>, <<0, 3>>, <<2, 1>>}
\* literals of up to MaxArgBits bits, and 3 + 5
ParameterInits == Constants \cup {Plus(mkconst_int(3), mkconst_int(5))}

ParameterModules ==
    { <<RangedParameter(type, sgn, init, rng[1], rng[2]),
        Wire(<<"y">>, <<3, 0>>, FALSE, TRUE, FALSE, FALSE, 1)>> :
        type \in {"AST_PARAMETER", "AST_LOCALPARAM"}, sgn \in BOOLEAN,
        init \in ParameterInits, rng \in ParameterRanges }

(***************************************************************************)
(* Memory accesses in a process.                                           *)
(***************************************************************************)
\* always @(posedge clk) or always @* begin <accesses> end
AccessModules ==
    { MemDecls(mem) \o <<Always(edge, body)>> :
        mem \in {Memory(MaxMemSize, TRUE), WithAttr(Memory(MaxMemSize, TRUE), "\\mem2reg", 1)},
        edge \in BOOLEAN,
        body \in {<<WrVarLE>>, <<RdVar>>, <<WrVarLE, RdVar>>, <<WrVarEQ, RdVar>>} }

(***************************************************************************)
(* One memory used by one or two processes and by a continuous assignment. *)
(***************************************************************************)
Edge(t, name) == Node(t, <<>>, <<Ident(name)>>)
Process(kind, body) ==
    CASE kind = "clocked" -> Always(TRUE, body)
      [] kind = "comb" -> Always(FALSE, body)
      [] kind = "two_edges" ->
            Node("AST_ALWAYS", <<>>,
                 <<Edge("AST_POSEDGE", <<"clk">>), Edge("AST_NEGEDGE", <<"j">>),
                   Node("AST_BLOCK", <<>>, body)>>)
      [] kind = "initial" -> Initial(body)
ProcessKinds == {"clocked", "comb", "two_edges", "initial"}

\* mem[j] = mem[j];
WrRdEQ == Stmt("AST_ASSIGN_EQ", MemJ, MemJ)
\* assign x = mem[j];
ContRd == Node("AST_ASSIGN", <<>>, <<Ident(<<"x">>), MemJ>>)

FirstBodies ==
    { <<WrVarEQ>>, <<WrVarLE>>, <<RdVar>>, <<WrVarEQ, RdVar>>, <<RdVar, WrVarEQ>>,
      <<WrRdEQ>>, <<WrVarEQ, WrNested>> }
SecondItems ==
    { <<>>, <<ContRd>>, <<Process("clocked", <<RdVar>>)>>, <<Process("clocked", <<WrVarLE>>)>>,
      <<Process("comb", <<WrVarLE>>)>>, <<Process("initial", <<WrVarLE>>)>> }

ProcessModules ==
    { MemDecls(Memory(MaxMemSize, TRUE)) \o <<Process(kind, body)>> \o second :
        kind \in ProcessKinds, body \in FirstBodies, second \in SecondItems }

(***************************************************************************)
(* Accesses to a memory at a constant address, in and beyond its range.    *)
(***************************************************************************)
\* mem[c] <= d;   x <= mem[c];
WrConstAt(c) == Stmt("AST_ASSIGN_LE", At(<<"mem">>, mkconst_int(c)), Ident(<<"d">>))
RdConstAt(c) == Stmt("AST_ASSIGN_LE", Ident(<<"x">>), At(<<"mem">>, mkconst_int(c)))

ConstBodies ==
    UNION { { <<WrConstAt(c)>>, <<RdConstAt(c)>>, <<WrConstAt(c), RdVar>>,
              <<WrVarLE, RdConstAt(c)>>, <<WrConstAt(0), RdConstAt(c)>> } : c \in 0..MaxMemSize }

ConstModules ==
    { MemDecls(mem) \o <<Always(edge, body)>> :
        mem \in UNION { {Memory(size, TRUE), WithAttr(Memory(size, TRUE), "\\mem2reg", 1)} :
                          size \in 1..MaxMemSize },
        edge \in BOOLEAN, body \in ConstBodies }

(***************************************************************************)
(* A for loop between other statements of a block.                         *)
(***************************************************************************)
\* y[i] <= rhs;
SetY(i, rhs) == Stmt("AST_ASSIGN_LE", At(<<"y">>, i), rhs)
SpliceBodies ==
    { SetY(Ident(<<"k">>), Ident(<<"a">>)),
      Begin(<<SetY(Ident(<<"k">>), Ident(<<"a">>)), SetY(Ident(<<"k">>), mkconst_int(0))>>) }

\* always @* begin y[3] <= a; for (k = 0; k < P; k = k + 1) <body> y[2] <= a; end
SpliceModules ==
    { LoopDecls(p) \o
      <<Always(FALSE, <<SetY(mkconst_int(3), Ident(<<"a">>))>> \o extra
                      \o <<Loop("AST_FOR", <<"k">>, mkconst_int(0),
                                 Node("AST_LT", <<>>, <<Ident(<<"k">>), Ident(<<"P">>)>>),
                                 mkconst_int(1), body)>>
                      \o post)>> :
        p \in 0..MaxParam, body \in SpliceBodies,
        extra \in {<<>>, <<SetY(mkconst_int(3), mkconst_int(0))>>},
        post \in {<<>>, <<SetY(mkconst_int(2), Ident(<<"a">>))>>} }

ElabModules ==
    SpliceModules \cup LoopModules \cup CaseModules \cup DynamicModules \cup AssertModules \cup CallModules
    \cup RangeModules \cup ParameterModules \cup AccessModules \cup ProcessModules
    \cup ConstModules

\* stage 0 on one of these modules, with and without the mem2reg step
InitElab ==
    /\ init_children \in { WithUids(m) : m \in ElabModules }
    /\ flag_nomem2reg \in (IF init_children[1].type = "AST_GENVAR" THEN BOOLEAN ELSE {FALSE})
    /\ flag_mem2reg = FALSE
    /\ mod_attributes = NoAttributes
    /\ const_fold = TRUE
    /\ children = init_children
    /\ pc = "stage1"
    /\ autoidx = 1
    /\ nextuid = Len(init_children) + 1
    /\ mem2reg_candidates = NoScope
    /\ mem2reg_set = {}
    /\ retval = "none"
    /\ error = ""
    /\ trace = <<>>
    /\ NoEvaluation
    /\ NoScan
    /\ NoAiger

SpecElab == InitElab /\ [][Next]_vars

(***************************************************************************)
(* Unrolling of for loops and generate-for blocks.                         *)
(***************************************************************************)
\* the loop of the module stage 0 was started on, if it has one
LoopsOf(ch) ==
    { ch[i] : i \in { k \in DOMAIN ch : ch[k].type = "AST_GENFOR" } }
    \cup { ch[i].children[1].children[1] :
             i \in { k \in DOMAIN ch : /\ ch[k].type = "AST_ALWAYS"
                                       /\ ch[k].children[1].children # <<>>
                                       /\ ch[k].children[1].children[1].type = "AST_FOR" } }
HasLoop == LoopsOf(init_children) # {}
TheLoop == CHOOSE l \in LoopsOf(init_children) : TRUE
LoopInit == TheLoop.children[1].children[2]
LoopCond == TheLoop.children[2]
LoopStep == TheLoop.children[3].children[2].children[2]
LoopBound == init_children[2].children[1].integer

\* the values init, init + step, ... that are below the bound, in order
LoopValues ==
    LET count == IF LoopInit.integer >= LoopBound THEN 0
                 ELSE ((LoopBound - LoopInit.integer - 1) \div LoopStep.integer) + 1
    IN  [j \in 1..count |-> LoopInit.integer + (j - 1) * LoopStep.integer]

\* the value of the loop variable a copy of the body was made for: the index
\* in the name blk[index].t of a generate block, the index of y[index] <= a
IndexInName(str) == CHOOSE v \in 0..(2 * MaxParam + 4) : str = <<"blk[" \o ToString(v) \o "]", "t">>
CopiesOfType(type) ==
    IF TheLoop.type = "AST_GENFOR"
    THEN LET list == SelectSeq(children, LAMBDA n : n.type = type /\
                                   (IF type = "AST_WIRE" THEN Len(n.str) = 2 ELSE TRUE))
         IN  [j \in DOMAIN list |->
                IndexInName(IF type = "AST_WIRE" THEN list[j].str ELSE list[j].children[1].str)]
    ELSE LET block == children[Len(init_children)].children[1].children
             list == SelectSeq(block, LAMBDA n : n.type = "AST_ASSIGN_LE")
         IN  [j \in DOMAIN list |-> list[j].children[1].children[1].children[1].integer]
Copies == CopiesOfType(IF TheLoop.type = "AST_GENFOR" THEN "AST_ASSIGN" ELSE "AST_ASSIGN_LE")

\* every copy of the body of a for loop stands before the loop statement, in
\* the block of the loop; every copy of a generate block has its wire and its assignment
CopiesInPlace ==
    IF TheLoop.type = "AST_GENFOR" THEN CopiesOfType("AST_WIRE") = Copies
    ELSE LET block == children[Len(init_children)].children[1].children
         IN  /\ Len(block) = Len(Copies) + 1
             /\ block[Len(block)].type = "AST_FOR"

NotConstant(what) == what \o " of generate for-loop is not constant"

\* C12: a pass over a module with a for loop or a generate-for block leaves
\* one copy of the body for each value init, step(init), ... of the loop
\* variable for which the condition is not zero, in that order, and none when
\* the condition is zero for init; it ends in a fatal error at the first of
\* init, condition, step that is not constant: before any copy for init and
\* the condition, after the copy of the iteration for the step.
C12_Unrolled ==
    (HasLoop /\ trace # <<>>) =>
       /\ CopiesInPlace
       /\ IF LoopInit.type # "AST_CONSTANT"
          THEN error = NotConstant("Right hand side of 1st expression") /\ Copies = <<>>
          ELSE IF LoopCond.type # "AST_LT"
          THEN error = NotConstant("2nd expression") /\ Copies = <<>>
          ELSE IF LoopInit.integer >= LoopBound
          THEN error = "" /\ Copies = <<>>
          ELSE IF LoopStep.type # "AST_CONSTANT"
          THEN /\ error = NotConstant("Right hand side of 3rd expression")
               /\ Copies = <<LoopInit.integer>>
          ELSE error = "" /\ Copies = LoopValues

\* a for loop in a process was unrolled into the copies for 0 and 2
C12_Witness ==
    /\ HasLoop /\ TheLoop.type = "AST_FOR" /\ pc = "done"
    /\ Copies = <<0, 2>>

\* a generate-for block was unrolled into three copies
C12_WitnessGenerate ==
    /\ HasLoop /\ TheLoop.type = "AST_GENFOR" /\ pc = "done"
    /\ Copies = <<0, 1, 2>>

\* the condition was zero from the start, the step that is no constant was never evaluated
C12_WitnessNone ==
    /\ HasLoop /\ pc = "done" /\ LoopStep.type # "AST_CONSTANT" /\ Copies = <<>>

\* the step was not constant: one copy, then the fatal error
C12_WitnessStep ==
    /\ HasLoop /\ pc = "error" /\ Len(Copies) = 1

(***************************************************************************)
(* The arm a generate-case expands.                                        *)
(***************************************************************************)
CasesOf(ch) == { ch[i] : i \in { k \in DOMAIN ch : ch[k].type = "AST_GENCASE" } }
HasCase == CasesOf(init_children) # {} /\ init_children[1].type = "AST_LOCALPARAM"
TheCase == CHOOSE n \in CasesOf(init_children) : TRUE
Discriminant == init_children[1].children[1]
ArmsOfCase == 2..Len(TheCase.children)
LiteralsOf(arm) ==
    { arm.children[k] : k \in { j \in DOMAIN arm.children : arm.children[j].type = "AST_CONSTANT" } }
IsDefaultArm(arm) == \E k \in DOMAIN arm.children : arm.children[k].type = "AST_DEFAULT"
GenblockOf(arm) == arm.children[Len(arm.children)]

\* equal as signed numbers when both are signed, as unsigned numbers otherwise
SameValue(a, b) ==
    IF a.is_signed /\ b.is_signed THEN a.integer = b.integer
    ELSE as_int(a.bits) = as_int(b.bits)

MatchingArms ==
    { i \in ArmsOfCase : \E lit \in LiteralsOf(TheCase.children[i]) : SameValue(Discriminant, lit) }

\* the arms whose generate block was expanded into the module
ExpandedArms ==
    { i \in ArmsOfCase :
        \E k \in DOMAIN children :
            /\ children[k].type = "AST_WIRE"
            /\ children[k].str = GenblockOf(TheCase.children[i]).str \o <<"t">> }

\* C13: a generate-case expands the block of the first arm in source order
\* that has a literal equal to the folded discriminant, compared as signed
\* numbers iff both are signed; the block of the default arm, wherever it
\* stands, iff no literal of any arm is equal; nothing otherwise.
C13_FirstMatch ==
    HasCase =>
       /\ error = ""
       /\ ExpandedArms =
             IF trace = <<>> THEN {}
             ELSE IF MatchingArms # {}
             THEN { CHOOSE i \in MatchingArms : \A j \in MatchingArms : i <= j }
             ELSE { i \in ArmsOfCase : IsDefaultArm(TheCase.children[i]) }

\* the default arm stands first, the third arm is the first one that matches
\* and the only one expanded; the signed P matches the signed literal only
C13_Witness ==
    /\ HasCase /\ pc = "done"
    /\ IsDefaultArm(TheCase.children[2])
    /\ MatchingArms = {4} /\ ExpandedArms = {4}
    /\ Discriminant.is_signed
    /\ \A lit \in LiteralsOf(TheCase.children[4]) : lit.is_signed

\* no literal matches: the default arm in the middle is expanded
C13_WitnessDefault ==
    /\ HasCase /\ pc = "done" /\ MatchingArms = {}
    /\ IsDefaultArm(TheCase.children[3]) /\ ExpandedArms = {3}

\* no literal matches and there is no default: nothing is expanded
C13_WitnessNothing ==
    /\ HasCase /\ pc = "done" /\ MatchingArms = {} /\ ExpandedArms = {}
    /\ \A i \in ArmsOfCase : ~IsDefaultArm(TheCase.children[i])

\* two arms match, the first is taken
C13_WitnessFirst ==
    /\ HasCase /\ pc = "done" /\ MatchingArms = {3, 4} /\ ExpandedArms = {3}

(***************************************************************************)
(* The case a dynamic select on the left of an assignment becomes.         *)
(***************************************************************************)
\* the module has an assignment to y[..a..] in its process
HasDynamic ==
    /\ Len(init_children) = 5 /\ init_children[5].type = "AST_ALWAYS"
    /\ init_children[5].children[1].children[1].type \in {"AST_ASSIGN_EQ", "AST_ASSIGN_LE"}
    /\ init_children[1].str = <<"y">>
TheAssignment == init_children[5].children[1].children[1]
TheStatement == children[5].children[1].children[1]
\* [L:R] of the wire as declared, its width S, the width W of the selection
DeclaredRange ==
    IF init_children[1].children = <<>> THEN <<0, 0>>
    ELSE LET l == init_children[1].children[1].children[1].integer
             r == init_children[1].children[1].children[2].integer
         IN  IF l >= r THEN <<l, r>> ELSE <<r, l>>
WidthS == DeclaredRange[1] - DeclaredRange[2] + 1
WidthW ==
    LET range == TheAssignment.children[1].children[1]
    IN  IF Len(range.children) = 1 THEN 1
        ELSE LET w == range.children[1].children[2]
             IN  (IF w.type = "AST_CONSTANT" THEN w.integer ELSE init_children[2].children[1].integer) + 1
SelectExpression ==
    LET range == TheAssignment.children[1].children[1]
    IN  range.children[Len(range.children)]

\* arm i of the case, i = 0 .. S-W: guarded by R+i, one assignment of the
\* original kind of the original right side to y[R+i+W-1 : R+i]
IsArm(arm, i) ==
    LET R == DeclaredRange[2] IN
    /\ arm.type = "AST_COND" /\ Len(arm.children) = 2
    /\ arm.children[1].type = "AST_CONSTANT" /\ arm.children[1].integer = R + i
    /\ arm.children[2].type = "AST_BLOCK" /\ Len(arm.children[2].children) = 1
    /\ LET asg == arm.children[2].children[1] IN
       /\ asg.type = TheAssignment.type
       /\ asg.children[1].type = "AST_IDENTIFIER" /\ asg.children[1].str = <<"y">>
       /\ Len(asg.children[1].children) = 1
       /\ LET range == asg.children[1].children[1] IN
          /\ range.type = "AST_RANGE" /\ Len(range.children) = 2
          /\ range.children[1].type = "AST_CONSTANT" /\ range.children[2].type = "AST_CONSTANT"
          /\ range.children[1].integer = R + i + WidthW - 1
          /\ range.children[2].integer = R + i
          /\ range.children[1].integer <= DeclaredRange[1]
       /\ asg.children[2].type = "AST_IDENTIFIER" /\ asg.children[2].str = <<"d">>

\* C14: the assignment to a dynamic select of width W of a wire [L:R] of
\* width S is replaced by a case on the select expression with exactly
\* S-W+1 arms, arm i guarded by R+i and assigning the original right side
\* with the original kind of assignment to [R+i+W-1 : R+i], within [L:R].
C14_Expanded ==
    (HasDynamic /\ trace # <<>>) =>
       /\ error = ""
       /\ TheStatement.type = "AST_CASE"
       /\ TheStatement.children[1].type = SelectExpression.type
       /\ TheStatement.children[1].str = SelectExpression.str
       /\ Len(TheStatement.children) = 1 + (IF WidthS - WidthW + 1 > 0 THEN WidthS - WidthW + 1 ELSE 0)
       /\ \A k \in 2..Len(TheStatement.children) : IsArm(TheStatement.children[k], k - 2)

\* y[a+1:a] <= d: a part select of two bits of a wire of four bits declared
\* [0:3] became a case of three arms
C14_Witness ==
    /\ HasDynamic /\ pc = "done"
    /\ WidthS = 4 /\ WidthW = 2 /\ init_children[1].children[1].children[1].integer = 0
    /\ TheAssignment.type = "AST_ASSIGN_LE"
    /\ Len(TheStatement.children) = 4

\* a bit select of a wire [2:1]: arms 1 and 2
C14_WitnessBit ==
    /\ HasDynamic /\ pc = "done" /\ DeclaredRange = <<2, 1>> /\ WidthW = 1
    /\ Len(TheStatement.children) = 3
    /\ TheStatement.children[2].children[1].integer = 1
    /\ TheStatement.children[3].children[1].integer = 2

(***************************************************************************)
(* Assertions of a process after the stage that lowers them.               *)
(***************************************************************************)
RECURSIVE AssertionsIn(_)
AssertionsIn(n) ==
    IF n.type = "AST_ASSERT" THEN {n}
    ELSE UNION { AssertionsIn(n.children[k]) : k \in DOMAIN n.children }

\* the process of the module and the assertions it has in the source
ProcessAt == Len(init_children)
HasProcessAssert ==
    /\ init_children # <<>> /\ init_children[ProcessAt].type = "AST_ALWAYS"
    /\ AssertionsIn(init_children[ProcessAt]) # {}
SourceAssertions == AssertionsIn(init_children[ProcessAt])
TopBlock == children[ProcessAt].children[Len(children[ProcessAt].children)].children

\* the names are numbered by autoidx
AssertIdx == 1..autoidx
CheckName(i) == <<"$assert$" \o ToString(i) \o "_CHECK">>
EnName(i) == <<"$assert$" \o ToString(i) \o "_EN">>
WiresCalled(str) == { k \in DOMAIN children : children[k].type = "AST_WIRE" /\ children[k].str = str }
ModuleAsserts == { k \in DOMAIN children : children[k].type = "AST_ASSERT" }
AssertsOf(i) ==
    { k \in ModuleAsserts :
        /\ Len(children[k].children) = 2
        /\ children[k].children[1].type = "AST_IDENTIFIER" /\ children[k].children[1].str = CheckName(i)
        /\ children[k].children[2].type = "AST_IDENTIFIER" /\ children[k].children[2].str = EnName(i) }

IsAssignLe(n, str) ==
    /\ n.type = "AST_ASSIGN_LE" /\ n.children[1].type = "AST_IDENTIFIER" /\ n.children[1].str = str

\* begin CHECK <= x; EN <= 0; end
IsDefaults(n, i) ==
    /\ n.type = "AST_BLOCK" /\ Len(n.children) = 2
    /\ IsAssignLe(n.children[1], CheckName(i)) /\ n.children[1].children[2] = XConst
    /\ IsAssignLe(n.children[2], EnName(i))
    /\ n.children[2].children[2].type = "AST_CONSTANT" /\ n.children[2].children[2].integer = 0

\* begin CHECK <= reduce_bool(cond); EN <= 1; end somewhere in n
RECURSIVE HasSite(_, _, _)
HasSite(n, i, cond) ==
    \/ /\ n.type = "AST_BLOCK" /\ Len(n.children) = 2
       /\ IsAssignLe(n.children[1], CheckName(i))
       /\ n.children[1].children[2].type = "AST_REDUCE_BOOL"
       /\ n.children[1].children[2].children[1].type = cond.type
       /\ n.children[1].children[2].children[1].str = cond.str
       /\ IsAssignLe(n.children[2], EnName(i))
       /\ n.children[2].children[2].type = "AST_CONSTANT" /\ n.children[2].children[2].integer = 1
    \/ \E k \in DOMAIN n.children : HasSite(n.children[k], i, cond)

\* the assertion src was lowered with the wires of index i
LoweredAs(src, i) ==
    /\ Cardinality(WiresCalled(CheckName(i))) = 1
    /\ Cardinality(WiresCalled(EnName(i))) = 1
    /\ Cardinality(AssertsOf(i)) = 1
    /\ \A k \in AssertsOf(i) : children[k].attributes = src.attributes
    /\ \E p, q \in DOMAIN TopBlock :
          /\ p <= Cardinality(SourceAssertions) /\ p < q
          /\ IsDefaults(TopBlock[p], i)
          /\ HasSite(TopBlock[q], i, src.children[1])

\* C15: once a stage-2 pass has run, every assertion of a process has one
\* CHECK wire, one EN wire and one module-level assert(CHECK, EN) with the
\* attributes of the assertion; its defaults CHECK <= x, EN <= 0 are among
\* the first statements of the top block, before the statement that has
\* CHECK <= reduce_bool(cond), EN <= 1 in the place of the assertion; no
\* other wire or module-level assert was made and no assertion is left in
\* the process.
C15_Lowered ==
    (HasProcessAssert /\ PassesOf("stage2") > 0) =>
       /\ error = ""
       /\ \A src \in SourceAssertions : \E i \in AssertIdx : LoweredAs(src, i)
       /\ Cardinality(ModuleAsserts) = Cardinality(SourceAssertions)
       /\ Cardinality(UNION { WiresCalled(CheckName(i)) \cup WiresCalled(EnName(i)) :
                                i \in AssertIdx }) = 2 * Cardinality(SourceAssertions)
       /\ Cardinality({ k \in DOMAIN children : children[k].type = "AST_WIRE" })
             = 4 + 2 * Cardinality(SourceAssertions)
       /\ AssertionsIn(children[ProcessAt]) = {}
       /\ \A p \in 1..Cardinality(SourceAssertions) :
             \E i \in AssertIdx : IsDefaults(TopBlock[p], i)

\* two assertions of one process were lowered, one of them with the attribute
\* keep, which its module-level assert carries
C15_Witness ==
    /\ HasProcessAssert /\ pc = "done"
    /\ Cardinality(SourceAssertions) = 2
    /\ \E src \in SourceAssertions : src.attributes["\\keep"] = 1
    /\ \E k \in ModuleAsserts : children[k].attributes["\\keep"] = 1
    /\ \E k \in ModuleAsserts : children[k].attributes["\\keep"] = NoAttr

\* an assertion in a block nested in the top block
C15_WitnessNested ==
    /\ HasProcessAssert /\ pc = "done"
    /\ init_children[ProcessAt].children[1].children[1].type = "AST_CASE"
    /\ Cardinality(ModuleAsserts) = 1

(***************************************************************************)
(* Inlining of function and task calls in a process.                       *)
(***************************************************************************)
\* the module stage 0 was started on calls f in the block of a process
CallerAt == Len(init_children)
HasBlockCall ==
    /\ init_children[CallerAt].type = "AST_ALWAYS"
    /\ init_children[CallerAt - 1].type \in {"AST_FUNCTION", "AST_TASK"}

\* the node holds a call that is still to be replaced
RECURSIVE CallsIn(_)
CallsIn(n) ==
    \/ n.type \in {"AST_FCALL", "AST_TCALL"} /\ n.str # <<>>
    \/ \E i \in DOMAIN n.children : CallsIn(n.children[i])

\* the block of the process as written and as it is now
BlockOf(process) == process.children[Len(process.children)]
SourceBlock == BlockOf(init_children[CallerAt]).children
CallerBlock == BlockOf(children[CallerAt]).children

\* the statement of the source that contains the call, and the call
CallingAt == CHOOSE i \in DOMAIN SourceBlock : CallsIn(SourceBlock[i])
CallingStatement == SourceBlock[CallingAt]
TheCall == IF CallingStatement.type = "AST_TCALL" THEN CallingStatement
           ELSE CallingStatement.children[2]
TheCallee == init_children[CallerAt - 1]

\* the name a wire of the callee has in the caller
InlinedName(str) == <<"$func$f$1$" \o Flat(str)>>
CalleeWires == { TheCallee.children[i].str : i \in { j \in DOMAIN TheCallee.children :
                                                     TheCallee.children[j].type = "AST_WIRE" } }
InputWires == SelectSeq(TheCallee.children, LAMBDA w : w.type = "AST_WIRE" /\ w.is_input)
BodyStatements == SelectSeq(TheCallee.children, LAMBDA w : w.type # "AST_WIRE")

\* the call has been inlined: the wires of the callee are wires of the module
IsInlined ==
    /\ HasBlockCall /\ error = ""
    /\ \E i \in DOMAIN children : /\ children[i].type = "AST_WIRE"
                                  /\ children[i].str = InlinedName(<<"a">>)

\* a statement without the annotations of the elaboration
RECURSIVE Plain(_)
Plain(n) ==
    [type |-> n.type, str |-> n.str, integer |-> n.integer, bits |-> n.bits,
     children |-> [i \in DOMAIN n.children |-> Plain(n.children[i])]]

\* a statement of the callee with the names of its wires replaced
RECURSIVE Renamed(_)
Renamed(n) ==
    [n EXCEPT !.str = IF n.type = "AST_IDENTIFIER" /\ n.str \in CalleeWires
                      THEN InlinedName(n.str) ELSE @,
              !.children = [i \in DOMAIN n.children |-> Renamed(n.children[i])]]

\* an actual argument as the call finds it: the arguments are simplified
\* before the call is, and a parameter has become its value by then
Actual(arg) ==
    IF arg = Ident(<<"P">>) /\ const_fold THEN init_children[1].children[1] ELSE arg

\* the k-th input wire receives the k-th actual argument
ArgumentAssignments ==
    [k \in 1..Min(Len(InputWires), Len(TheCall.children)) |->
        Stmt("AST_ASSIGN_EQ", Ident(InlinedName(InputWires[k].str)),
             Actual(TheCall.children[k]))]

\* the calling statement after the call
CalledStatement ==
    IF CallingStatement.type = "AST_TCALL"
    THEN [CallingStatement EXCEPT !.str = <<>>,
                                  !.children = [k \in DOMAIN @ |-> Actual(@[k])]]
    ELSE [CallingStatement EXCEPT !.children[2] = Ident(InlinedName(<<"f">>))]

InlinedBlock ==
    SubSeq(SourceBlock, 1, CallingAt - 1)
    \o ArgumentAssignments
    \o [k \in DOMAIN BodyStatements |-> Renamed(BodyStatements[k])]
    \o <<CalledStatement>>
    \o SubSeq(SourceBlock, CallingAt + 1, Len(SourceBlock))

\* C16: when a function or task call in a block is inlined, the block holds the
\* statements that were before the calling statement, then the assignments
\* of the k-th actual argument to the k-th prefixed input wire, then the
\* renamed clones of the callee's statements in declaration order, then the
\* calling statement, then the statements that were after it
C16_InlinedInOrder ==
    IsInlined =>
        [i \in DOMAIN CallerBlock |-> Plain(CallerBlock[i])]
        = [i \in DOMAIN InlinedBlock |-> Plain(InlinedBlock[i])]

\* y = f(b, a) between two statements has been inlined
C16_Witness ==
    /\ IsInlined /\ pc = "done"
    /\ TheCall.type = "AST_FCALL" /\ CallingAt = 2 /\ Len(SourceBlock) = 3
    /\ Len(TheCall.children) = 2
    /\ TheCall.children[1] = B /\ TheCall.children[2] = A
    /\ Len(CallerBlock) = 6

\* a task call with one argument for two inputs has been inlined
C16_WitnessTask ==
    /\ IsInlined /\ pc = "done"
    /\ TheCall.type = "AST_TCALL" /\ Len(TheCall.children) = 1
    /\ Len(ArgumentAssignments) = 1

\* a callee of two statements has been inlined
C16_WitnessStatements ==
    /\ IsInlined /\ pc = "done" /\ Len(BodyStatements) = 2

(***************************************************************************)
(* Function calls where a constant is demanded.                            *)
(***************************************************************************)
\* the module stage 0 was started on ends with localparam Q = f(..) or with
\* wire [f(..):0] w
HostAt == Len(init_children)
CallOfHost(host) ==
    IF host.type = "AST_LOCALPARAM" THEN host.children[1] ELSE host.children[1].children[1]
HasConstantCall ==
    /\ init_children[HostAt].type \in {"AST_LOCALPARAM", "AST_WIRE"}
    /\ init_children[HostAt - 1].type = "AST_FUNCTION"
    /\ CallOfHost(init_children[HostAt]).type = "AST_FCALL"

\* the call of the module, in a constant context or in a process or assignment
SourceCall ==
    IF HasConstantCall THEN CallOfHost(init_children[HostAt])
    ELSE IF init_children[HostAt].type = "AST_ASSIGN" THEN init_children[HostAt].children[2]
    ELSE TheCall
HasFunctionCall ==
    /\ init_children[HostAt - 1].type = "AST_FUNCTION"
    /\ HasConstantCall \/ HasBlockCall \/ init_children[HostAt].type = "AST_ASSIGN"

RECURSIVE HasLoopStatement(_)
HasLoopStatement(n) ==
    \/ n.type \in {"AST_WHILE", "AST_REPEAT"}
    \/ \E i \in DOMAIN n.children : HasLoopStatement(n.children[i])

\* an argument that folds to a constant: the parameter P, a literal
FoldsToConstant(arg) == arg = Ident(<<"P">>) \/ arg.type = "AST_CONSTANT"
ArgsFold == \A k \in DOMAIN SourceCall.children : FoldsToConstant(SourceCall.children[k])
ValueOfArg(arg) == IF arg = Ident(<<"P">>) THEN init_children[1].children[1].integer
                   ELSE arg.integer

\* what f returns for arguments that are 1 or 2: the plain body returns its
\* first argument, the bodies with a loop return the last t that is not zero
ReturnedValue ==
    IF init_children[HostAt - 1].children[5] = PlainBody[1]
    THEN ValueOfArg(SourceCall.children[1]) ELSE 1

\* no wire of a callee and no statement has been added to the module
NothingAdded ==
    /\ Len(children) = Len(init_children)
    /\ \A i \in DOMAIN children :
          /\ children[i].type = init_children[i].type
          /\ children[i].str = init_children[i].str
          /\ i # HostAt => Plain(children[i]) = Plain(init_children[i])

\* C17: where a constant is demanded, a function call whose arguments all
\* fold to constants is replaced by the constant the function returns and
\* nothing is added to the module; with an argument that is not constant the
\* elaboration ends with a fatal error and nothing is inlined; a call of a
\* function with while or repeat outside of such a context ends with a fatal
\* error too when an argument is not constant
C17_ConstantCall ==
    /\ (HasConstantCall /\ ArgsFold /\ trace # <<>>) =>
          /\ error = "" /\ NothingAdded
          /\ CallOfHost(children[HostAt]).type = "AST_CONSTANT"
          /\ CallOfHost(children[HostAt]).integer = ReturnedValue
    /\ (HasConstantCall /\ ~ArgsFold /\ trace # <<>>) =>
          /\ error = "Non-constant function call in constant expression"
          /\ NothingAdded
    /\ (HasFunctionCall /\ ~HasConstantCall /\ ~ArgsFold /\ trace # <<>>
        /\ HasLoopStatement(init_children[HostAt - 1])) =>
          /\ error = "Function can only be called with constant arguments"
          /\ NothingAdded

\* localparam Q = f(P, 2'b01) has become the value of P
C17_Witness ==
    /\ HasConstantCall /\ pc = "done" /\ error = ""
    /\ init_children[HostAt].type = "AST_LOCALPARAM"
    /\ SourceCall.children = <<Ident(<<"P">>), Bits(<<"1", "0">>)>>
    /\ children[HostAt].children[1].type = "AST_CONSTANT"
    /\ children[HostAt].children[1].integer = 2

\* localparam Q = f(a) has ended the elaboration
C17_WitnessFatal ==
    /\ HasConstantCall /\ ~ArgsFold /\ pc = "error"

\* y = f(a, b) with a while loop in f has ended the elaboration
C17_WitnessLoop ==
    /\ HasBlockCall /\ HasLoopStatement(init_children[HostAt - 1]) /\ ~ArgsFold
    /\ pc = "error"

\* wire [f(P):0] w has the range [2:0]
C17_WitnessRange ==
    /\ HasConstantCall /\ pc = "done" /\ children[HostAt].type = "AST_WIRE"
    /\ children[HostAt].range_valid /\ children[HostAt].range_left = 2

(***************************************************************************)
(* The order of the bounds of a range.                                     *)
(***************************************************************************)
RECURSIVE RangesInOrder(_)
RangesInOrder(n) ==
    /\ (n.type \in {"AST_RANGE", "AST_WIRE"} /\ n.range_valid) => n.range_left >= n.range_right
    /\ \A i \in DOMAIN n.children : RangesInOrder(n.children[i])

\* the bounds wire w is declared with
HasDeclaredRange ==
    /\ init_children[1].type = "AST_WIRE" /\ init_children[1].str = <<"w">>
    /\ Len(init_children[1].children) = 1
WrittenBound(k) ==
    LET b == init_children[1].children[1].children[k]
    IN  IF b.type = "AST_NEG" THEN 0 - b.children[1].integer ELSE b.integer

\* C18: for every range node and every wire, range_valid implies
\* range_left >= range_right, whatever the order and the sign of the bounds
\* that were written
C18_InOrder == \A i \in DOMAIN children : RangesInOrder(children[i])

\* wire [-1:0] w has been elaborated and is annotated as it was written
C18_NegativeLeft ==
    /\ HasDeclaredRange /\ pc = "done" /\ error = ""
    /\ WrittenBound(1) = 0 - 1 /\ WrittenBound(2) = 0
    /\ children[1].range_valid
    /\ children[1].range_left = 0 - 1 /\ children[1].range_right = 0

(***************************************************************************)
(* The width of the value of a parameter with a range.                     *)
(***************************************************************************)
HasRangedParameter ==
    /\ init_children[1].type \in {"AST_PARAMETER", "AST_LOCALPARAM"}
    /\ Len(init_children[1].children) = 2

\* the value that was written: the integer of the literal, the sum of 3 + 5
WrittenValue ==
    LET init == init_children[1].children[1]
    IN  IF init.type = "AST_ADD" THEN init.children[1].integer + init.children[2].integer
        ELSE init.integer

\* the width bits of the value v in two's complement, the lowest bit first
BitsOfValue(v, width) ==
    [k \in 1..width |-> IF (v \div 2^(k - 1)) % 2 = 1 THEN "1" ELSE "0"]

WrittenRange == init_children[1].children[2]
ParameterValue == children[1].children[1]
ParameterRange == children[1].children[2]
ParameterWidth == ParameterRange.range_left - ParameterRange.range_right + 1

\* C19: after simplification the value of a parameter or localparam with a
\* constant range of width W and a constant initialiser is a constant of
\* exactly W bits: the written value cut to W bits, or extended to W bits
\* with its sign when it is signed and with zeros otherwise; the range has
\* the larger bound as range_left and the smaller one as range_right
C19_Sized ==
    (HasRangedParameter /\ trace # <<>>) =>
        /\ error = ""
        /\ ParameterRange.range_valid
        /\ ParameterRange.range_left
              = Max(WrittenRange.children[1].integer, WrittenRange.children[2].integer)
        /\ ParameterRange.range_right
              = Min(WrittenRange.children[1].integer, WrittenRange.children[2].integer)
        /\ ParameterValue.type = "AST_CONSTANT"
        /\ Len(ParameterValue.bits) = ParameterWidth
        /\ ParameterValue.bits = BitsOfValue(WrittenValue, ParameterWidth)

\* parameter [7:0] P = 3 + 5 has the value 8'd8 and the range [7:0]
C19_Witness ==
    /\ HasRangedParameter /\ pc = "done"
    /\ init_children[1].children[1].type = "AST_ADD"
    /\ ParameterRange.range_left = 7 /\ ParameterRange.range_right = 0
    /\ ParameterValue.bits = <<"0", "0", "0", "1", "0", "0", "0", "0">>
    /\ ParameterValue.integer = 8

\* parameter [3:0] P = 2'sb11 has the value 4'b1111
C19_WitnessSigned ==
    /\ HasRangedParameter /\ pc = "done"
    /\ init_children[1].children[1] = mkconst_bits(<<"1", "1">>, TRUE)
    /\ ParameterWidth = 4
    /\ ParameterValue.bits = <<"1", "1", "1", "1">>

\* parameter [0:0] P = 2'b10 has the value 1'b0
C19_WitnessCut ==
    /\ HasRangedParameter /\ pc = "done"
    /\ init_children[1].children[1] = mkconst_bits(<<"0", "1">>, FALSE)
    /\ ParameterWidth = 1
    /\ ParameterValue.bits = <<"0">>

(***************************************************************************)
(* The lowering of memory accesses and assertions waits for stage 2.       *)
(***************************************************************************)
\* a node made by the lowering of a memory access or of an assertion
RECURSIVE HasLoweredNode(_)
HasLoweredNode(n) ==
    \/ n.type \in {"AST_MEMRD", "AST_MEMWR"}
    \/ n.type = "AST_ASSERT" /\ Len(n.children) = 2
    \/ \E i \in DOMAIN n.children : HasLoweredNode(n.children[i])

\* the names of the wires the lowering of a write or of an assertion makes
ScratchNames ==
    UNION { { <<"$memwr$mem$" \o ToString(i) \o "_ADDR">>,
              <<"$memwr$mem$" \o ToString(i) \o "_DATA">>,
              <<"$memwr$mem$" \o ToString(i) \o "_EN">>,
              CheckName(i), EnName(i) } : i \in 1..autoidx }

\* the ports of the module: the memrd and memwr nodes, wherever they are
RECURSIVE PortsIn(_)
PortsIn(n) ==
    (IF n.type \in {"AST_MEMRD", "AST_MEMWR"} THEN {n} ELSE {})
    \cup UNION { PortsIn(n.children[i]) : i \in DOMAIN n.children }

\* the port refers to a memory that is declared and was not demoted
OfKeptMemory(port) ==
    \E k \in DOMAIN children :
        /\ children[k].type = "AST_MEMORY" /\ children[k].str = port.str
        /\ children[k].uid \notin mem2reg_set
        /\ port.type = "AST_MEMRD" => port.id2ast = children[k].uid

Stage2Started == PassesOf("stage2") > 0

\* C20: before the first stage-2 pass the module has no memrd node, no memwr
\* node, no scratch wire of a write port or of an assertion and no assertion
\* of two arguments; every memrd and memwr refers to a memory that is
\* declared and that mem2reg did not demote
C20_Gated ==
    /\ ~Stage2Started =>
          \A i \in DOMAIN children :
              ~HasLoweredNode(children[i]) /\ children[i].str \notin ScratchNames
    /\ \A i \in DOMAIN children : \A port \in PortsIn(children[i]) : OfKeptMemory(port)

\* a kept memory that is read and written has its two ports in the final tree
C20_Witness ==
    /\ pc = "done" /\ error = "" /\ Stage2Started
    /\ \E i, k \in DOMAIN children :
          /\ children[i].type = "AST_MEMWR" /\ OfKeptMemory(children[i])
          /\ \E port \in PortsIn(children[k]) : port.type = "AST_MEMRD"

\* a demoted memory has no port in the final tree
C20_WitnessDemoted ==
    /\ pc = "done" /\ error = "" /\ mem2reg_set # {}
    /\ \A i \in DOMAIN children : PortsIn(children[i]) = {}

\* the passes of stage 1 and mem2reg are over and the assertion of the
\* process is not lowered yet
C20_WitnessBefore ==
    /\ pc = "stage2" /\ ~Stage2Started
    /\ \E i \in DOMAIN children : children[i].type = "AST_ALWAYS"
                                  /\ AssertionsIn(children[i]) # {}

\* an assertion has been lowered by a stage-2 pass
C20_WitnessAssert ==
    /\ pc = "done" /\ error = "" /\ Stage2Started
    /\ \E i \in DOMAIN children : children[i].type = "AST_ASSERT"
                                  /\ Len(children[i].children) = 2

(***************************************************************************)
(* C21: the flag EQ2 of the mem2reg analysis.                              *)
(***************************************************************************)
IsAssignment(n) == n.type \in {"AST_ASSIGN", "AST_ASSIGN_LE", "AST_ASSIGN_EQ"}
NamesMemory(n, m) == n.type = "AST_IDENTIFIER" /\ n.str = m.str

\* the accesses to the memory m below n: "read" for a reference that is not
\* the target of an assignment, the type of the assignment for a write.  In
\* execution order the index of the target and the right side are read before
\* the target is written; in visiting order the write comes first, the right
\* side follows it and the index of the target is not looked at
RECURSIVE Accesses(_, _, _), AccessesOf(_, _, _, _)
Accesses(n, m, visiting) ==
    IF IsAssignment(n)
    THEN LET write == IF NamesMemory(n.children[1], m) THEN <<n.type>> ELSE <<>>
         IN  IF visiting THEN write \o Accesses(n.children[2], m, visiting)
             ELSE AccessesOf(n.children[1].children, 1, m, visiting)
                  \o Accesses(n.children[2], m, visiting) \o write
    ELSE (IF NamesMemory(n, m) THEN <<"read">> ELSE <<>>)
         \o AccessesOf(n.children, 1, m, visiting)

AccessesOf(list, i, m, visiting) ==
    IF i > Len(list) THEN <<>>
    ELSE Accesses(list[i], m, visiting) \o AccessesOf(list, i + 1, m, visiting)

ReadFollowsBlockingWrite(ev) ==
    \E i \in DOMAIN ev : \E k \in DOMAIN ev : i < k /\ ev[i] = "AST_ASSIGN_EQ" /\ ev[k] = "read"

ProcessesOf(ch) == {p \in DOMAIN ch : ch[p].type \in {"AST_ALWAYS", "AST_INITIAL"}}
Analysed == pc = "decide"

\* C21 as stated: after the analysis, EQ2 is set for a memory if and only if
\* one always or initial process reads the memory after a blocking write to it
\* that the same process executed earlier
C21_AsStated ==
    Analysed =>
        \A i \in Memories :
            "EQ2" \in CollectedFlags(init_children[i].uid)
            <=> \E p \in ProcessesOf(children) :
                    ReadFollowsBlockingWrite(Accesses(children[p], init_children[i], FALSE))

\* C21: after the analysis, EQ2 is set for a memory if and only if one always
\* or initial process refers to the memory, outside the target of an
\* assignment, at a place visited after a blocking assignment to the memory in
\* the same process, the right side of that assignment included; a blocking
\* write in one process and reads in other processes or in continuous
\* assignments do not set it
C21_SameProcess ==
    Analysed =>
        \A i \in Memories :
            "EQ2" \in CollectedFlags(init_children[i].uid)
            <=> \E p \in ProcessesOf(children) :
                    ReadFollowsBlockingWrite(Accesses(children[p], init_children[i], TRUE))

\* the analysis is over; one process writes the memory with a blocking
\* assignment and never reads it, another one reads it, and EQ2 is not set
C21_Witness ==
    /\ Analysed
    /\ \E i \in Memories : \E p \in ProcessesOf(children) : \E q \in ProcessesOf(children) :
           /\ p < q
           /\ Accesses(children[p], init_children[i], TRUE) = <<"AST_ASSIGN_EQ">>
           /\ Accesses(children[q], init_children[i], TRUE) = <<"read">>
           /\ "EQ2" \notin CollectedFlags(init_children[i].uid)

\* the analysis is over and EQ2 is set for a read in a statement after the
\* blocking write
C21_WitnessSet ==
    /\ Analysed
    /\ \E i \in Memories : \E p \in ProcessesOf(children) :
           /\ Accesses(children[p], init_children[i], FALSE) = <<"AST_ASSIGN_EQ", "read">>
           /\ "EQ2" \in CollectedFlags(init_children[i].uid)

\* the analysis is over and EQ2 is set for the right side of the blocking write
C21_WitnessRightSide ==
    /\ Analysed
    /\ \E i \in Memories : \E p \in ProcessesOf(children) :
           /\ Accesses(children[p], init_children[i], FALSE) = <<"read", "AST_ASSIGN_EQ">>
           /\ Len(children[p].children[Len(children[p].children)].children) = 1
           /\ "EQ2" \in CollectedFlags(init_children[i].uid)

(***************************************************************************)
(* C22: the flags SET_ASYNC, SET_INIT and SET_ELSE of the mem2reg analysis.*)
(***************************************************************************)
\* the module item c holds an assignment whose target is the memory m
WritesMemory(c, m) ==
    \E k \in DOMAIN Accesses(c, m, TRUE) : Accesses(c, m, TRUE)[k] # "read"

EdgeEvents(c) ==
    Cardinality({k \in DOMAIN c.children : c.children[k].type \in {"AST_POSEDGE", "AST_NEGEDGE"}})

IsAsyncProcess(c) == c.type = "AST_ALWAYS" /\ EdgeEvents(c) # 1

\* C22: after the analysis, SET_ASYNC is set for a memory exactly when the
\* memory is written inside an always block with no or with several edge
\* events, SET_INIT exactly when it is written inside an initial block and
\* SET_ELSE exactly when it is written anywhere else; each write is classified
\* by the process it stands in, never by a process visited before it
C22_Classified ==
    Analysed =>
        \A i \in Memories :
            LET m == init_children[i]
                fl == CollectedFlags(m.uid)
            IN  /\ "SET_ASYNC" \in fl
                   <=> \E c \in DOMAIN children :
                           IsAsyncProcess(children[c]) /\ WritesMemory(children[c], m)
                /\ "SET_INIT" \in fl
                   <=> \E c \in DOMAIN children :
                           children[c].type = "AST_INITIAL" /\ WritesMemory(children[c], m)
                /\ "SET_ELSE" \in fl
                   <=> \E c \in DOMAIN children :
                           children[c].type # "AST_INITIAL" /\ WritesMemory(children[c], m)

\* the analysis is over; an always block without edge events that only reads
\* the memory is followed by a clocked always block that writes it, and the
\* write set SET_ELSE only
C22_Witness ==
    /\ Analysed
    /\ \E i \in Memories : \E p \in DOMAIN children : \E q \in DOMAIN children :
           /\ p < q
           /\ IsAsyncProcess(children[p]) /\ ~WritesMemory(children[p], init_children[i])
           /\ children[q].type = "AST_ALWAYS" /\ EdgeEvents(children[q]) = 1
           /\ WritesMemory(children[q], init_children[i])
           /\ CollectedFlags(init_children[i].uid) = {"SET_ELSE"}

\* the analysis is over; an initial block that only reads the memory is
\* followed by an always block without edge events that writes it
C22_WitnessInitial ==
    /\ Analysed
    /\ \E i \in Memories : \E p \in DOMAIN children : \E q \in DOMAIN children :
           /\ p < q
           /\ children[p].type = "AST_INITIAL" /\ ~WritesMemory(children[p], init_children[i])
           /\ IsAsyncProcess(children[q]) /\ WritesMemory(children[q], init_children[i])
           /\ CollectedFlags(init_children[i].uid) = {"SET_ASYNC", "SET_ELSE"}

\* the analysis is over; the memory is written under two edge events and in
\* an initial block
C22_WitnessTwoEdges ==
    /\ Analysed
    /\ \E i \in Memories : \E p \in DOMAIN children : \E q \in DOMAIN children :
           /\ children[p].type = "AST_ALWAYS" /\ EdgeEvents(children[p]) = 2
           /\ WritesMemory(children[p], init_children[i])
           /\ children[q].type = "AST_INITIAL" /\ WritesMemory(children[q], init_children[i])
           /\ {"SET_ASYNC", "SET_INIT", "SET_ELSE"} \subseteq CollectedFlags(init_children[i].uid)

(***************************************************************************)
(* C23: the registers of a demoted memory and its constant addresses.      *)
(***************************************************************************)
JustLowered == pc = "stage2" /\ PassesOf("pass2") = 1 /\ PassesOf("stage2") = 0
Demoted == {i \in Memories : init_children[i].uid \in mem2reg_set}

\* width and depth of a memory as it is declared
WordWidth(m) == Abs(m.children[1].children[1].integer - m.children[1].children[2].integer) + 1
Depth(m) == Abs(m.children[2].children[1].integer - m.children[2].children[2].integer) + 1

IsWordRegister(w, m) ==
    /\ w.is_reg /\ w.range_valid /\ w.range_left - w.range_right + 1 = WordWidth(m)

\* the module item that stood at position p before the demoted memories left
ItemAfterDelete(p) == children[p - Cardinality({i \in Demoted : i < p})]

IsConstantAccess(n, m) ==
    /\ NamesMemory(n, m) /\ Len(n.children) = 1
    /\ n.children[1].children[1].type = "AST_CONSTANT"

\* the constant addresses at which n accesses m, none other
RECURSIVE ConstantAddresses(_, _), OnlyConstantAccesses(_, _), WithRegisters(_, _)
ConstantAddresses(n, m) ==
    (IF IsConstantAccess(n, m) THEN {n.children[1].children[1].integer} ELSE {})
    \cup UNION {ConstantAddresses(n.children[k], m) : k \in DOMAIN n.children}

OnlyConstantAccesses(n, m) ==
    /\ NamesMemory(n, m) => IsConstantAccess(n, m)
    /\ \A k \in DOMAIN n.children : OnlyConstantAccesses(n.children[k], m)

\* n with every access mem[c] replaced by the identifier "mem[c]"
WithRegisters(n, m) ==
    IF IsConstantAccess(n, m)
    THEN Plain(Ident(Indexed(m.str, n.children[1].children[1].integer)))
    ELSE [Plain(n) EXCEPT !.children = [k \in DOMAIN n.children |-> WithRegisters(n.children[k], m)]]

\* the statements of the processes of the source that access m at constant
\* addresses only, as <<position of the process, statement>>
ConstantStatements(m) ==
    UNION { { <<p, BlockOf(init_children[p]).children[k]>> :
                k \in { j \in DOMAIN BlockOf(init_children[p]).children :
                          LET s == BlockOf(init_children[p]).children[j]
                          IN  OnlyConstantAccesses(s, m) /\ ConstantAddresses(s, m) # {} } } :
            p \in ProcessesOf(init_children) }

\* C23: after the lowering, every demoted memory of depth N has exactly one
\* register wire "mem[i]" of the word width for each i in 0..N-1 and no
\* declaration any more, and every access mem[c] at a constant address has
\* become the identifier "mem[c]" without a range, which names one of the N
\* registers
C23_Registers ==
    JustLowered =>
        \A i \in Demoted :
            LET m == init_children[i]
            IN  /\ \A w \in 0..(Depth(m) - 1) :
                       /\ Cardinality(RegisterOf(m, w)) = 1
                       /\ \A r \in RegisterOf(m, w) : IsWordRegister(children[r], m)
                /\ \A k \in DOMAIN children : children[k].uid # m.uid
                /\ \A ps \in ConstantStatements(m) :
                       /\ \E k \in DOMAIN BlockOf(ItemAfterDelete(ps[1])).children :
                              Plain(BlockOf(ItemAfterDelete(ps[1])).children[k])
                                  = WithRegisters(ps[2], m)
                       /\ \A c \in ConstantAddresses(ps[2], m) : RegisterOf(m, c) # {}

\* the same for the accesses at an address inside 0..N-1; an access at
\* another constant address c has become the identifier "mem[c]" as well
C23_InRange ==
    JustLowered =>
        \A i \in Demoted :
            LET m == init_children[i]
            IN  /\ \A w \in 0..(Depth(m) - 1) :
                       /\ Cardinality(RegisterOf(m, w)) = 1
                       /\ \A r \in RegisterOf(m, w) : IsWordRegister(children[r], m)
                /\ \A k \in DOMAIN children : children[k].uid # m.uid
                /\ \A ps \in ConstantStatements(m) :
                       /\ \E k \in DOMAIN BlockOf(ItemAfterDelete(ps[1])).children :
                              Plain(BlockOf(ItemAfterDelete(ps[1])).children[k])
                                  = WithRegisters(ps[2], m)
                       /\ \A c \in ConstantAddresses(ps[2], m) :
                              c \in 0..(Depth(m) - 1) => RegisterOf(m, c) # {}

\* the lowering is over and an access at the constant address N of a demoted
\* memory of depth N has become an identifier that names no wire of the module
C23_OutOfRange ==
    /\ JustLowered
    /\ \E i \in Demoted : \E ps \in ConstantStatements(init_children[i]) :
           /\ ConstantAddresses(ps[2], init_children[i]) = {Depth(init_children[i])}
           /\ \E k \in DOMAIN BlockOf(ItemAfterDelete(ps[1])).children :
                  Plain(BlockOf(ItemAfterDelete(ps[1])).children[k])
                      = WithRegisters(ps[2], init_children[i])
           /\ \A k \in DOMAIN children :
                  children[k].str # Indexed(init_children[i].str, Depth(init_children[i]))

\* the lowering is over and the accesses of a demoted memory of two or more
\* words at the address 1 name its second register
C23_WitnessInRange ==
    /\ JustLowered
    /\ \E i \in Demoted : \E ps \in ConstantStatements(init_children[i]) :
           /\ Depth(init_children[i]) > 1
           /\ ConstantAddresses(ps[2], init_children[i]) = {1}
           /\ Cardinality(RegisterOf(init_children[i], 1)) = 1

(***************************************************************************)
(* C24: a read of a demoted memory at a variable address.                  *)
(***************************************************************************)
IsVariableAccess(n, m) ==
    /\ NamesMemory(n, m) /\ Len(n.children) = 1
    /\ n.children[1].children[1].type # "AST_CONSTANT"
IndexOfAccess(n) == n.children[1].children[1]

\* the wires of the module that the source did not declare
FreshWires ==
    {k \in DOMAIN children :
        /\ children[k].type = "AST_WIRE"
        /\ \A j \in DOMAIN init_children : init_children[j].str # children[k].str}
IsScratch(k, width, nosync) ==
    /\ k \in FreshWires /\ children[k].is_reg /\ children[k].range_valid
    /\ children[k].range_left - children[k].range_right + 1 = width
    /\ get_bool_attribute(children[k], "\\nosync") = nosync

AddressBits(m) == CHOOSE b \in 1..8 : 2^b >= Depth(m) /\ \A k \in 1..(b - 1) : 2^k < Depth(m)
AllX(m) == [k \in 1..WordWidth(m) |-> "x"]

\* arm number i of case_node is "i - 1: data = mem[i - 1];", or the other
\* way round for a write
IsWordArm(case_node, i, m, data, type, reading) ==
    LET arm == case_node.children[i + 1]
        reg == Plain(Ident(Indexed(m.str, i - 1)))
    IN  /\ arm.type = "AST_COND" /\ Len(arm.children) = 2
        /\ arm.children[1].type = "AST_CONSTANT" /\ arm.children[1].integer = i - 1
        /\ arm.children[2].type = "AST_BLOCK"
        /\ [k \in DOMAIN arm.children[2].children |-> Plain(arm.children[2].children[k])]
               = <<Plain(Node(type, <<>>, IF reading THEN <<Ident(data), Ident(Indexed(m.str, i - 1))>>
                                          ELSE <<Ident(Indexed(m.str, i - 1)), Ident(data)>>))>>

\* case_node is "case (addr) 0: data = mem[0]; .. N-1: data = mem[N-1];
\* default: data = x; endcase"
IsReadCase(case_node, m, addr, data) ==
    /\ case_node.type = "AST_CASE" /\ Len(case_node.children) = Depth(m) + 2
    /\ Plain(case_node.children[1]) = Plain(Ident(addr))
    /\ \A i \in 1..Depth(m) : IsWordArm(case_node, i, m, data, "AST_ASSIGN_EQ", TRUE)
    /\ LET arm == case_node.children[Depth(m) + 2]
       IN  /\ arm.type = "AST_COND" /\ Len(arm.children) = 2
           /\ arm.children[1].type = "AST_DEFAULT" /\ arm.children[2].type = "AST_BLOCK"
           /\ Len(arm.children[2].children) = 1
           /\ LET a == arm.children[2].children[1]
              IN  /\ a.type = "AST_ASSIGN_EQ" /\ Plain(a.children[1]) = Plain(Ident(data))
                  /\ a.children[2].type = "AST_CONSTANT" /\ a.children[2].bits = AllX(m)

IsAddressAssignment(n, type, addr, index) ==
    /\ n.type = type /\ Plain(n.children[1]) = Plain(Ident(addr))
    /\ Plain(n.children[2]) = Plain(index)

\* the statements of the block of the process p of the source whose right
\* side is a read of m at a variable address
VariableReads(p, m) ==
    {k \in DOMAIN BlockOf(init_children[p]).children :
        LET s == BlockOf(init_children[p]).children[k]
        IN  IsAssignment(s) /\ IsVariableAccess(s.children[2], m)}

\* the continuous assignments of the source that read m at a variable address
ContinuousReads(m) ==
    {p \in DOMAIN init_children :
        /\ init_children[p].type = "AST_ASSIGN"
        /\ IsVariableAccess(init_children[p].children[2], m)}

\* the statements q, q+1, q+2 of the lowered block are "addr = index;",
\* the case and the statement s reading the data wire; k - 1 statements of
\* the source stand before s, and so do at least as many in the lowered block
LoweredReadAt(block, q, s, before, m) ==
    /\ q + 2 <= Len(block) /\ q > before
    /\ \E a \in FreshWires : \E d \in FreshWires :
           /\ a # d
           /\ IsScratch(a, AddressBits(m), TRUE) /\ IsScratch(d, WordWidth(m), TRUE)
           /\ IsAddressAssignment(block[q], "AST_ASSIGN_EQ", children[a].str,
                                  IndexOfAccess(s.children[2]))
           /\ IsReadCase(block[q + 1], m, children[a].str, children[d].str)
           /\ IsAssignment(block[q + 2])
           /\ Plain(block[q + 2].children[2]) = Plain(Ident(children[d].str))

LoweredOutside(p, m) ==
    \E a \in FreshWires : \E d \in FreshWires : \E proc \in DOMAIN children :
    \E assign \in DOMAIN children :
        /\ a # d /\ proc > Len(init_children) - Cardinality(Demoted) /\ assign > proc
        /\ IsScratch(a, AddressBits(m), FALSE) /\ IsScratch(d, WordWidth(m), FALSE)
        /\ children[proc].type = "AST_ALWAYS" /\ Len(children[proc].children) = 1
        /\ children[proc].children[1].type = "AST_BLOCK"
        /\ Len(children[proc].children[1].children) = 1
        /\ IsReadCase(children[proc].children[1].children[1], m, children[a].str, children[d].str)
        /\ IsAddressAssignment(children[assign], "AST_ASSIGN", children[a].str,
                               IndexOfAccess(init_children[p].children[2]))
        /\ ItemAfterDelete(p).type = "AST_ASSIGN"
        /\ Plain(ItemAfterDelete(p).children[2]) = Plain(Ident(children[d].str))

C24_WitnessOutside ==
    /\ JustLowered
    /\ \E i \in Demoted : \E p \in ContinuousReads(init_children[i]) :
           LoweredOutside(p, init_children[i])

(***************************************************************************)
(* C25: a write to a demoted memory at a variable address.                 *)
(***************************************************************************)
\* case_node is "case (addr) 0: mem[0] <op> data; .. N-1: mem[N-1] <op> data;
\* endcase" with the assignment type of the source for <op>
IsWriteCase(case_node, m, addr, data, type) ==
    /\ case_node.type = "AST_CASE" /\ Len(case_node.children) = Depth(m) + 1
    /\ Plain(case_node.children[1]) = Plain(Ident(addr))
    /\ \A i \in 1..Depth(m) : IsWordArm(case_node, i, m, data, type, FALSE)

\* the registers of m that case_node assigns when its address is v
AssignedAt(case_node, m, v) ==
    {w \in 0..(Depth(m) + 1) :
        \E i \in 2..Len(case_node.children) :
            LET arm == case_node.children[i]
            IN  /\ \/ arm.children[1].type = "AST_DEFAULT"
                   \/ arm.children[1].type = "AST_CONSTANT" /\ arm.children[1].integer = v
                /\ \E k \in DOMAIN arm.children[2].children :
                       /\ IsAssignment(arm.children[2].children[k])
                       /\ arm.children[2].children[k].children[1].str = Indexed(m.str, w)}

AddressValues(m) == (0 - 1)..(Depth(m) + 2)

\* the statements of the block of the process p of the source that write m
\* at a variable address
VariableWrites(p, m) ==
    {k \in DOMAIN BlockOf(init_children[p]).children :
        LET s == BlockOf(init_children[p]).children[k]
        IN  s.type \in {"AST_ASSIGN_LE", "AST_ASSIGN_EQ"} /\ IsVariableAccess(s.children[1], m)}

\* the statements q, q+1, q+2 of the lowered block are "data = rhs;",
\* "addr = index;" and the case
LoweredWriteAt(block, q, s, before, m) ==
    /\ q + 2 <= Len(block) /\ q > before
    /\ \E a \in FreshWires : \E d \in FreshWires :
           /\ a # d
           /\ IsScratch(a, AddressBits(m), TRUE) /\ IsScratch(d, WordWidth(m), TRUE)
           /\ block[q].type = "AST_ASSIGN_EQ"
           /\ Plain(block[q].children[1]) = Plain(Ident(children[d].str))
           /\ Accesses(s.children[2], m, TRUE) = <<>>
                  => Plain(block[q].children[2]) = Plain(s.children[2])
           /\ IsAddressAssignment(block[q + 1], "AST_ASSIGN_EQ", children[a].str,
                                  IndexOfAccess(s.children[1]))
           /\ IsWriteCase(block[q + 2], m, children[a].str, children[d].str, s.type)
           /\ \A v \in AddressValues(m) :
                  /\ Cardinality(AssignedAt(block[q + 2], m, v)) <= 1
                  /\ v \notin 0..(Depth(m) - 1) => AssignedAt(block[q + 2], m, v) = {}

\* C25: after the lowering, a statement of a block that wrote a demoted
\* memory of depth N at a variable address has become the blocking assignment
\* "data = rhs" and is immediately followed in its block by "addr = index"
\* and by "case (addr)" with one arm "i: mem[i] <op> data" for each i in
\* 0..N-1, <op> being the assignment of the source; the case assigns at most
\* one register for each value of the address and none for a value outside
\* 0..N-1
C25_WriteLowered ==
    JustLowered =>
        \A i \in Demoted : \A p \in ProcessesOf(init_children) :
            \A k \in VariableWrites(p, init_children[i]) :
                \E q \in DOMAIN BlockOf(ItemAfterDelete(p)).children :
                    LoweredWriteAt(BlockOf(ItemAfterDelete(p)).children, q,
                                   BlockOf(init_children[p]).children[k], k - 1,
                                   init_children[i])

\* the lowering is over for a block that wrote a demoted memory of two or more
\* words at a variable address with a non-blocking assignment
C25_Witness ==
    /\ JustLowered
    /\ \E i \in Demoted : \E p \in ProcessesOf(init_children) :
       \E k \in VariableWrites(p, init_children[i]) :
           /\ Depth(init_children[i]) > 1
           /\ BlockOf(init_children[p]).children[k].type = "AST_ASSIGN_LE"
           /\ \E q \in DOMAIN BlockOf(ItemAfterDelete(p)).children :
                  LoweredWriteAt(BlockOf(ItemAfterDelete(p)).children, q,
                                 BlockOf(init_children[p]).children[k], k - 1,
                                 init_children[i])

\* the same for a blocking assignment whose right side read the memory
C25_WitnessBlocking ==
    /\ JustLowered
    /\ \E i \in Demoted : \E p \in ProcessesOf(init_children) :
       \E k \in VariableWrites(p, init_children[i]) :
           /\ BlockOf(init_children[p]).children[k].type = "AST_ASSIGN_EQ"
           /\ Accesses(BlockOf(init_children[p]).children[k].children[2],
                       init_children[i], TRUE) # <<>>
           /\ Len(BlockOf(ItemAfterDelete(p)).children) = 5

(***************************************************************************)
(* C26: a for loop in the constant-function interpreter.                   *)
(***************************************************************************)
StatementsOf(body) == IF body.type = "AST_BLOCK" THEN body.children ELSE <<body>>

\* C26: the interpreter replaces "for (init; cond; step) body" at the front
\* of its statements by init and by a while loop on cond whose body is a block
\* of the statements of body followed by step, whether body is a begin/end
\* block or a single statement: step runs once after each run of body
C26_ForAsWhile ==
    [][EvalFor =>
          LET stmt == Head(block_children)
          IN  /\ Len(block_children') = Len(block_children) + 1
              /\ block_children'[1] = stmt.children[1]
              /\ block_children'[2].type = "AST_WHILE"
              /\ Len(block_children'[2].children) = 2
              /\ block_children'[2].children[1] = stmt.children[2]
              /\ block_children'[2].children[2].type = "AST_BLOCK"
              /\ block_children'[2].children[2].children
                     = StatementsOf(stmt.children[4]) \o <<stmt.children[3]>>
      ]_<<vars, evars>>

\* the loop "for (t = a; t; t = t[1:1]) f = t;" has run its body at least
\* twice: the statement f = t carries the step as a third child, t is still
\* the argument and the while loop is at the front again
C26_StepLost ==
    /\ epc = "run" /\ steps >= 7 /\ block_children # <<>>
    /\ Head(block_children).type = "AST_WHILE"
    /\ Head(block_children).children[2].type = "AST_ASSIGN_EQ"
    /\ Len(Head(block_children).children[2].children) = 3
    /\ Head(block_children).children[2].children[3] = ShiftT
    /\ variables[<<"t">>].val = fcall.children[1].bits
    /\ asBool(fcall.children[1])

\* the loop with a begin/end body has returned after two runs of its body
C26_WitnessBlock ==
    /\ epc = "idle" /\ returned # <<>> /\ steps = MaxSteps
    /\ \E k \in DOMAIN init_decl.children :
           /\ init_decl.children[k].type = "AST_BLOCK"
           /\ \E j \in DOMAIN init_decl.children[k].children :
                  /\ init_decl.children[k].children[j].type = "AST_FOR"
                  /\ init_decl.children[k].children[j].children[4].type = "AST_BLOCK"

(***************************************************************************)
(* C27: a blocking assignment in the constant-function interpreter.        *)
(***************************************************************************)
\* the target of the assignment at the front of the statements, with its
\* range folded, and the folded right side
TargetOfFront == FoldLhs(Head(block_children).children[1])
ValueOfFront == FoldExpr(replace_variables(Head(block_children).children[2], variables).n)
LowBit(lhs) ==
    Min(lhs.children[1].range_left, lhs.children[1].range_right) - variables[lhs.str].offset
HighBit(lhs) ==
    Max(lhs.children[1].range_left, lhs.children[1].range_right) - variables[lhs.str].offset

\* the bits of the target variable after the assignment
StoredBits(lhs, rhs) ==
    LET val == variables[lhs.str].val
    IN  IF lhs.children = <<>> THEN bitsAsConst(rhs, Len(val), rhs.is_signed)
        ELSE [k \in 1..Len(val) |->
                 IF k - 1 \in LowBit(lhs)..HighBit(lhs)
                 THEN bitsAsConst(rhs, HighBit(lhs) - LowBit(lhs) + 1, rhs.is_signed)[k - LowBit(lhs)]
                 ELSE val[k]]

InsideVariable(lhs) ==
    lhs.children # <<>> => LowBit(lhs) >= 0 /\ HighBit(lhs) < Len(variables[lhs.str].val)

\* C27: a blocking assignment that the interpreter executes stores the low
\* bits of the folded right side into the bits min(l,r)-offset ..
\* max(l,r)-offset of the variable when the target is v[l:r], and the right
\* side resized to the width of the variable when the target is v; every
\* other bit and every other variable keeps its value
C27_Stored ==
    [][(EvalAssignEq /\ epc' = "run" /\ InsideVariable(TargetOfFront)) =>
          variables' = [variables EXCEPT ![TargetOfFront.str].val =
                                             StoredBits(TargetOfFront, ValueOfFront)]
      ]_<<vars, evars>>

\* the same for an assignment to a whole variable
C27_WholeVariable ==
    [][(EvalAssignEq /\ epc' = "run" /\ TargetOfFront.children = <<>>) =>
          variables' = [variables EXCEPT ![TargetOfFront.str].val =
                                             StoredBits(TargetOfFront, ValueOfFront)]
      ]_<<vars, evars>>

\* "f = 2'b00; f[0:0] = a;" has returned 2'b00 for an argument whose bit 0 is 1
C27_PartlyStored ==
    /\ epc = "idle" /\ returned # <<>>
    /\ \E k \in DOMAIN init_decl.children :
           init_decl.children[k] = Begin(<<Set(F, Zero2), Set(Select(<<"f">>, 0, 0), A)>>)
    /\ fcall.children[1].bits # <<>> /\ fcall.children[1].bits[1] = "1"
    /\ returned[Len(returned)].bits = <<"0", "0">>

(***************************************************************************)
(* C28: the place of the statements of an unrolled for loop.               *)
(***************************************************************************)
\* the position of the process with the for loop between other statements
SpliceAt == Len(init_children)
HasSplicedLoop ==
    /\ init_children[1].type = "AST_GENVAR"
    /\ init_children[SpliceAt].type = "AST_ALWAYS"
    /\ Len(BlockOf(init_children[SpliceAt]).children) > 1
    /\ \E k \in DOMAIN BlockOf(init_children[SpliceAt]).children :
           BlockOf(init_children[SpliceAt]).children[k].type = "AST_FOR"
LoopAt ==
    CHOOSE k \in DOMAIN BlockOf(init_children[SpliceAt]).children :
        BlockOf(init_children[SpliceAt]).children[k].type = "AST_FOR"
SourceStatements == BlockOf(init_children[SpliceAt]).children

\* "y[i] <= rhs" as <<i, type of rhs>>, any other statement as its type; the
\* statements of a begin/end block one after the other
RECURSIVE Shapes(_, _)
Shapes(list, k) ==
    IF k > Len(list) THEN <<>>
    ELSE (IF list[k].type = "AST_BLOCK" THEN Shapes(list[k].children, 1)
          ELSE IF list[k].type = "AST_ASSIGN_LE"
          THEN <<<<list[k].children[1].children[1].children[1].integer, list[k].children[2].type>>>>
          ELSE <<list[k].type>>)
         \o Shapes(list, k + 1)

\* the statements of the body for the value v of the loop variable
RECURSIVE IterationShapes(_, _, _)
IterationShapes(list, k, v) ==
    IF k > Len(list) THEN <<>>
    ELSE <<<<v, list[k].children[2].type>>>> \o IterationShapes(list, k + 1, v)

RECURSIVE AllIterations(_, _, _)
AllIterations(body, v, bound) ==
    IF v >= bound THEN <<>>
    ELSE IterationShapes(StatementsOf(body), 1, v) \o AllIterations(body, v + 1, bound)

\* C28: from the pass that unrolls it on, the block of a for loop holds the
\* statements that stood before the loop, then the statements of the body for
\* each value of the loop variable, iteration after iteration and in the order
\* of the body, then the loop statement, then the statements that stood after
\* the loop
C28_SplicedInPlace ==
    (HasSplicedLoop /\ trace # <<>>) =>
        Shapes(BlockOf(children[SpliceAt]).children, 1)
            = Shapes(SubSeq(SourceStatements, 1, LoopAt - 1), 1)
              \o AllIterations(SourceStatements[LoopAt].children[4], 0,
                               init_children[2].children[1].integer)
              \o <<"AST_FOR">>
              \o Shapes(SubSeq(SourceStatements, LoopAt + 1, Len(SourceStatements)), 1)

\* a loop of two iterations over a body of two statements, with statements
\* before and after it, was unrolled
C28_Witness ==
    /\ HasSplicedLoop /\ pc = "done"
    /\ init_children[2].children[1].integer = 2
    /\ SourceStatements[LoopAt].children[4].type = "AST_BLOCK"
    /\ LoopAt > 1 /\ LoopAt < Len(SourceStatements)
    /\ Len(Shapes(BlockOf(children[SpliceAt]).children, 1)) = Len(SourceStatements) + 4

(***************************************************************************)
(* has_const_only_constructs, lines 2075-2088, one activation per step.    *)
(* The function calls itself on the declaration a call names and on every  *)
(* child; a step here enters, resumes or leaves one activation, so that a  *)
(* recursion that never returns is a run that never reaches "returned".    *)
(* The stack of the process holds MaxDepth activations.                    *)
(***************************************************************************)
MaxDepth == 16

\* function <name>; input a; <body> endfunction
ScanFunction(name, body) ==
    Node("AST_FUNCTION", <<name>>, <<PlainWire(<<name>>), PlainWire(<<"a">>), body>>)
CallOf(name, arg) == Node("AST_FCALL", <<name>>, <<arg>>)
WhileA == Node("AST_WHILE", <<>>, <<A, Set(F, A)>>)
RepeatA == Node("AST_REPEAT", <<>>, <<A, Set(F, A)>>)

ScanBodiesF ==
    { Begin(<<Set(F, A)>>),
      Begin(<<Set(F, A), WhileA>>),
      Begin(<<RepeatA>>),
      Begin(<<For(Set(T, A), T, ShiftT, Set(F, T))>>),
      Begin(<<Set(F, CallOf("f", A))>>),
      Begin(<<Set(F, CallOf("g", A))>>),
      Begin(<<WhileA, Set(F, CallOf("f", A))>>),
      Begin(<<Set(F, CallOf("f", A)), WhileA>>) }

ScanBodiesG ==
    { Begin(<<Set(Ident(<<"g">>), A)>>),
      Begin(<<WhileA>>),
      Begin(<<Set(Ident(<<"g">>), CallOf("f", A))>>),
      Begin(<<Set(Ident(<<"g">>), CallOf("g", A))>>) }

ScanScopes ==
    { (<<"f">> :> ScanFunction("f", bf)) @@ (<<"g">> :> ScanFunction("g", bg)) :
        bf \in ScanBodiesF, bg \in ScanBodiesG }

\* f(a), g(a), f(g(a)) and a call of a name that is not declared
ScanCalls == { CallOf("f", A), CallOf("g", A), CallOf("f", CallOf("g", A)), CallOf("u", A) }

Activation(n) == [node |-> n, at |-> 0, in_callee |-> FALSE]

\* line 1337: has_const_only_constructs(recommend_const_eval) on the call
InitScan ==
    /\ NoModule
    /\ NoEvaluation
    /\ NoAiger
    /\ scan_scope \in ScanScopes
    /\ scan_call \in ScanCalls
    /\ scan_stack = <<Activation(scan_call)>>
    /\ scan_recommend = FALSE
    /\ scan_ret = "none"
    /\ scan_pc = "run"

Top == scan_stack[Len(scan_stack)]
Entering == scan_pc = "run" /\ scan_ret = "none" /\ scan_stack # <<>> /\ Top.at = 0 /\ ~Top.in_callee
Resolves(n) == n.type = "AST_FCALL" /\ n.str \in DOMAIN scan_scope
ScanFrame == UNCHANGED <<vars, evars, avars, scan_scope, scan_call>>

\* the activation at the top goes on with the loop over the children
WithTopAt(k) ==
    [scan_stack EXCEPT ![Len(scan_stack)] = [@ EXCEPT !.at = k, !.in_callee = FALSE]]

\* lines 2079-2080: a while or a repeat
ScanLoop ==
    /\ Entering
    /\ Top.node.type \in {"AST_WHILE", "AST_REPEAT"}
    /\ scan_stack' = SubSeq(scan_stack, 1, Len(scan_stack) - 1)
    /\ scan_ret' = "true"
    /\ UNCHANGED <<scan_recommend, scan_pc>>
    /\ ScanFrame

\* lines 2081-2082: a call of a name in scope, the check goes into what the name is bound to
ScanCallee ==
    /\ Entering
    /\ Resolves(Top.node)
    /\ Len(scan_stack) < MaxDepth
    /\ scan_stack' = Append([scan_stack EXCEPT ![Len(scan_stack)].in_callee = TRUE],
                            Activation(scan_scope[Top.node.str]))
    /\ UNCHANGED <<scan_recommend, scan_ret, scan_pc>>
    /\ ScanFrame

\* lines 2077-2078 and 2084: any other node, on to its children
ScanEnter ==
    /\ Entering
    /\ Top.node.type \notin {"AST_WHILE", "AST_REPEAT"}
    /\ ~Resolves(Top.node)
    /\ scan_recommend' = (scan_recommend \/ Top.node.type = "AST_FOR")
    /\ scan_stack' = WithTopAt(1)
    /\ UNCHANGED <<scan_ret, scan_pc>>
    /\ ScanFrame

\* lines 2084-2085: the next child
ScanChild ==
    /\ scan_pc = "run" /\ scan_ret = "none" /\ scan_stack # <<>>
    /\ Top.at \in 1..Len(Top.node.children)
    /\ Len(scan_stack) < MaxDepth
    /\ scan_stack' = Append(scan_stack, Activation(Top.node.children[Top.at]))
    /\ UNCHANGED <<scan_recommend, scan_ret, scan_pc>>
    /\ ScanFrame

\* a call when the stack is used up
ScanOverflow ==
    /\ scan_pc = "run" /\ scan_ret = "none" /\ scan_stack # <<>>
    /\ \/ Top.at = 0 /\ ~Top.in_callee /\ Resolves(Top.node)
       \/ Top.at \in 1..Len(Top.node.children)
    /\ Len(scan_stack) >= MaxDepth
    /\ scan_pc' = "overflow"
    /\ UNCHANGED <<scan_stack, scan_recommend, scan_ret>>
    /\ ScanFrame

\* line 2087: no child is left
ScanReturnFalse ==
    /\ scan_pc = "run" /\ scan_ret = "none" /\ scan_stack # <<>>
    /\ Top.at = Len(Top.node.children) + 1
    /\ scan_stack' = SubSeq(scan_stack, 1, Len(scan_stack) - 1)
    /\ scan_ret' = "false"
    /\ UNCHANGED <<scan_recommend, scan_pc>>
    /\ ScanFrame

\* lines 2082-2083 and 2085-2086: the caller takes the value that came back
ScanResume ==
    /\ scan_pc = "run" /\ scan_ret # "none" /\ scan_stack # <<>>
    /\ IF scan_ret = "true"
       THEN /\ scan_stack' = SubSeq(scan_stack, 1, Len(scan_stack) - 1)
            /\ UNCHANGED scan_ret
       ELSE /\ scan_stack' = WithTopAt(IF Top.in_callee THEN 1 ELSE Top.at + 1)
            /\ scan_ret' = "none"
    /\ UNCHANGED <<scan_recommend, scan_pc>>
    /\ ScanFrame

\* line 1337: require_const_eval has its value
ScanDone ==
    /\ scan_pc = "run" /\ scan_ret # "none" /\ scan_stack = <<>>
    /\ scan_pc' = "returned"
    /\ UNCHANGED <<scan_stack, scan_recommend, scan_ret>>
    /\ ScanFrame

NextScan ==
    \/ ScanLoop
    \/ ScanCallee
    \/ ScanEnter
    \/ ScanChild
    \/ ScanOverflow
    \/ ScanReturnFalse
    \/ ScanResume
    \/ ScanDone

SpecScan == InitScan /\ [][NextScan]_<<vars, evars, svars, avars>>

(***************************************************************************)
(* C29: the check for while and repeat returns, with the right answer.     *)
(***************************************************************************)
RECURSIVE Subtree(_)
Subtree(n) == {n} \cup UNION { Subtree(n.children[i]) : i \in DOMAIN n.children }

\* the names in scope that the calls under n name
CalledUnder(n) == { m.str : m \in { k \in Subtree(n) : Resolves(k) } }

RECURSIVE CalledTransitively(_)
CalledTransitively(names) ==
    LET more == names \cup UNION { CalledUnder(scan_scope[s]) : s \in names }
    IN  IF more = names THEN names ELSE CalledTransitively(more)

\* a while or a repeat in the call or in a function called from it, directly or not
HasLoopTransitively ==
    \E m \in Subtree(scan_call)
             \cup UNION { Subtree(scan_scope[s]) : s \in CalledTransitively(CalledUnder(scan_call)) } :
        m.type \in {"AST_WHILE", "AST_REPEAT"}

\* a function that is entered while it is being checked
Reentered ==
    \E i, j \in DOMAIN scan_stack :
        i < j /\ scan_stack[i].node.type = "AST_FUNCTION" /\ scan_stack[i].node = scan_stack[j].node

\* C29: the check never runs out of stack, and what it returns is true exactly
\* when the call or a function called from it, directly or not, has a while or
\* a repeat
C29_Decides ==
    /\ scan_pc # "overflow"
    /\ scan_pc = "returned" => ((scan_ret = "true") <=> HasLoopTransitively)

\* when the check returns, the answer is the right one
C29_RightWhenReturned ==
    scan_pc = "returned" => ((scan_ret = "true") <=> HasLoopTransitively)

\* the stack is used up only by a function that calls itself, directly or not
C29_OverflowByRecursion == scan_pc = "overflow" => Reentered

\* the check ran out of stack on a call of a function that calls itself and
\* has neither a while nor a repeat
C29_Overflow ==
    /\ scan_pc = "overflow" /\ Reentered
    /\ scan_call = CallOf("f", A)
    /\ ~HasLoopTransitively

\* the check returned true, and it returned false, on calls of functions that
\* call nothing
C29_WitnessReturned ==
    /\ scan_pc = "returned"
    /\ CalledTransitively(CalledUnder(scan_call)) = {scan_call.str}

(***************************************************************************)
(* parse_aiger_ascii, lines 2551-2582: the symbol table.  The state is     *)
(* that of line 2549, the inputs, latches, outputs and gates being read;   *)
(* a wire is its identity, a line of the table is [c, l1, s] with c the    *)
(* first character, l1 the position and s the name, and l1 = Unparsed when *)
(* "f >> l1 >> s" fails.                                                   *)
(***************************************************************************)
MaxSignals == 2     \* 0 .. MaxSignals inputs, latches and outputs each
MaxLines == 2       \* lines of the symbol table
Unparsed == 0 - 1
WildPointer == 0    \* what is not the address of a wire

AigerWires == 1..(3 * MaxSignals)
SymbolLines ==
    { [c |-> ch, l1 |-> p] : ch \in {"i", "l", "o"}, p \in {Unparsed} \cup 0..(MaxSignals + 1) }
    \cup { [c |-> ch, l1 |-> Unparsed] : ch \in {"b", "c", "x"} }

\* the k-th line names its wire "s<k>"
SymbolTables ==
    UNION { { [k \in 1..n |-> [c |-> e[k].c, l1 |-> e[k].l1, s |-> k]] : e \in [1..n -> SymbolLines] } :
            n \in 0..MaxLines }

InitAiger ==
    /\ NoModule
    /\ NoEvaluation
    /\ NoScan
    /\ \E I \in 0..MaxSignals, L \in 0..MaxSignals, O \in 0..MaxSignals :
           /\ inputs = [k \in 1..I |-> k]
           /\ latches = [k \in 1..L |-> MaxSignals + k]
           /\ outputs = [k \in 1..O |-> 2 * MaxSignals + k]
    /\ symbols \in SymbolTables
    /\ wire_names = [w \in AigerWires |-> <<"literal", w>>]
    /\ indexed = <<>>
    /\ aiger_error = ""
    /\ aiger_pc = "symbols"

\* the vector a line of the table is about
VectorOf(c) == IF c = "i" THEN inputs ELSE IF c = "l" THEN latches ELSE outputs

\* line 2558
InvalidPosition(l1, size) == l1 > size

\* vector[l1]: the element, or whatever lies behind the last one
Subscript(vector, l1) ==
    IF l1 < Len(vector) THEN {vector[l1 + 1]} ELSE AigerWires \cup {WildPointer}

AigerFrame == UNCHANGED <<vars, evars, svars, inputs, latches, outputs>>
AtLine == aiger_pc = "symbols" /\ symbols # <<>>
AigerFail(msg) ==
    /\ aiger_pc' = "error"
    /\ aiger_error' = msg
    /\ UNCHANGED <<symbols, wire_names, indexed>>
    /\ AigerFrame

\* lines 2553-2569: a symbol is read and its wire renamed
AigerSymbol ==
    /\ AtLine
    /\ Head(symbols).c \in {"i", "l", "o"}
    /\ Head(symbols).l1 # Unparsed
    /\ ~InvalidPosition(Head(symbols).l1, Len(VectorOf(Head(symbols).c)))
    /\ indexed' = Append(indexed, [c |-> Head(symbols).c, at |-> Head(symbols).l1,
                                   size |-> Len(VectorOf(Head(symbols).c))])
    /\ \E wire \in Subscript(VectorOf(Head(symbols).c), Head(symbols).l1) :
           IF wire = WildPointer
           THEN /\ aiger_pc' = "crash"
                /\ UNCHANGED <<symbols, wire_names>>
           ELSE /\ wire_names' = [wire_names EXCEPT ![wire] = <<"\\", Head(symbols).s>>]
                /\ symbols' = Tail(symbols)
                /\ UNCHANGED aiger_pc
    /\ UNCHANGED aiger_error
    /\ AigerFrame

\* lines 2555-2556
AigerUnparsed ==
    /\ AtLine
    /\ Head(symbols).c \in {"i", "l", "o"}
    /\ Head(symbols).l1 = Unparsed
    /\ AigerFail("Line cannot be interpreted as a symbol entry!")

\* lines 2558-2559
AigerPosition ==
    /\ AtLine
    /\ Head(symbols).c \in {"i", "l", "o"}
    /\ Head(symbols).l1 # Unparsed
    /\ InvalidPosition(Head(symbols).l1, Len(VectorOf(Head(symbols).c)))
    /\ AigerFail("Line has invalid symbol position!")

\* lines 2570-2572 and 2582: the line is skipped
AigerTodo ==
    /\ AtLine
    /\ Head(symbols).c \in {"b", "j", "f"}
    /\ symbols' = Tail(symbols)
    /\ UNCHANGED <<wire_names, indexed, aiger_error, aiger_pc>>
    /\ AigerFrame

\* lines 2573-2579: the comment section ends the table
AigerComment ==
    /\ AtLine
    /\ Head(symbols).c = "c"
    /\ aiger_pc' = "done"
    /\ UNCHANGED <<symbols, wire_names, indexed, aiger_error>>
    /\ AigerFrame

\* lines 2580-2581
AigerOther ==
    /\ AtLine
    /\ Head(symbols).c \notin {"i", "l", "o", "b", "j", "f", "c"}
    /\ AigerFail("Line: cannot interpret first character!")

\* line 2552: the end of the stream
AigerEof ==
    /\ aiger_pc = "symbols" /\ symbols = <<>>
    /\ aiger_pc' = "done"
    /\ UNCHANGED <<symbols, wire_names, indexed, aiger_error>>
    /\ AigerFrame

NextAiger ==
    \/ AigerSymbol
    \/ AigerUnparsed
    \/ AigerPosition
    \/ AigerTodo
    \/ AigerComment
    \/ AigerOther
    \/ AigerEof

SpecAiger == InitAiger /\ [][NextAiger]_<<vars, evars, svars, avars>>

(***************************************************************************)
(* C30: the positions of the symbol table.                                 *)
(***************************************************************************)
\* C30: no vector is subscripted at or behind its size, a position that is
\* not below the size being rejected as an invalid symbol position
C30_PositionChecked ==
    /\ \A k \in DOMAIN indexed : indexed[k].at < indexed[k].size
    /\ aiger_pc # "crash"

\* a position above the size is rejected
C30_AboveRejected == \A k \in DOMAIN indexed : indexed[k].at <= indexed[k].size

\* a vector was subscripted at its size
C30_PastTheEnd ==
    \E k \in DOMAIN indexed : indexed[k].at = indexed[k].size /\ indexed[k].size > 0

====
